---------------------------- MODULE Spec2Model ----------------------------
(***************************************************************************)
(* State-machine model of the forecasting service:                         *)
(*   services/monitoring.py         PerformanceMonitor, ForecastTimer      *)
(*   services/data_validator.py     DataValidator.validate_sales_data      *)
(*   services/forecast_processor.py ForecastProcessor                      *)
(*   main.py                        generate_forecast, batch endpoint      *)
(*                                                                         *)
(* Numbers.  Python floats are modelled by scaled integers: confidence and *)
(* quality scores in thousandths (1000 = 1.0), predicted quantities in     *)
(* tenths of a unit, processing times in milliseconds.  Strings built by   *)
(* f-strings are sequences of their parts; None and "" are both <<>>.      *)
(***************************************************************************)
EXTENDS Integers, Sequences, FiniteSets, TLC

VARIABLES
    \* PerformanceMonitor (monitoring.py:42-53)
    metrics_history,      \* deque(maxlen=max_history_size) of ForecastMetrics
    model_performance,    \* defaultdict(list): model name -> list of entries
    error_counts,         \* defaultdict(int): error message -> count
    processing_times,     \* deque(maxlen=100)
    lock,                 \* threading.Lock: 0 = free, else the holding thread
    \* threads calling the monitor
    tpc,                  \* thread -> position inside its current call
    tcall,                \* thread -> the call it is making (op and arguments)
    tret,                 \* thread -> what its last completed call returned
    \* history of the calls, kept for stating the properties
    since_clear,          \* every metrics recorded since the last clear, in order
    calls_left,           \* calls that may still be issued
    clears_left,          \* clear calls that may still be issued in a sequential run
    pattern,              \* the workload of a sequential run
    \* one call of generate_forecast (main.py:37-134)
    now,                  \* the clock: time.time() and datetime.now(), in seconds
    request,              \* the ForecastRequest
    rpc,                  \* position inside the handler
    timer,                \* the ForecastTimer: start_time, end_time
    validation_result,    \* what validate_sales_data returned
    arima_result,         \* what the ARIMA forecaster returned
    prophet_result,       \* what the Prophet forecaster returned
    best_result,          \* what _select_best_forecast returned
    forecast_result,      \* the ProcessedForecastResult
    response,             \* the ForecastResponse returned
    exc,                  \* the exception being handled by `except Exception as e`
    raised,               \* the exception the handler let through to its caller
    steps,                \* the steps of this request, in the order they ran
    records_made,         \* calls of timer.record_metrics made by this request
    failure,              \* the latest error of this request
    \* one call of generate_batch_forecast (main.py:136-184)
    items,                \* request.items
    item_idx,             \* index of the item the loop is at
    bpc,                  \* position inside the batch handler
    forecasts,
    insufficient_data_items,
    failed_items,
    all_warnings,
    batch_response,       \* the BatchForecastResponse returned
    \* a function applied to arguments
    fn_args,
    fn_result,            \* <<>> before the call, <<value>> after it
    fn_log                \* the calls made so far: what was passed, what came back

mon_vars == <<metrics_history, model_performance, error_counts, processing_times, lock>>
thr_vars == <<tpc, tcall, tret>>
drv_vars == <<tpc, tcall, tret, calls_left, clears_left, pattern>>
req_vars == <<now, request, rpc, timer, validation_result, arima_result, prophet_result,
              best_result, forecast_result, response, exc, raised, steps, records_made,
              failure>>
bat_vars == <<items, item_idx, bpc, forecasts, insufficient_data_items, failed_items,
              all_warnings, batch_response>>
fn_vars == <<fn_args, fn_result, fn_log>>
app_vars == <<req_vars, bat_vars, fn_vars>>
vars == <<metrics_history, model_performance, error_counts, processing_times, lock,
          tpc, tcall, tret, since_clear, calls_left, clears_left, pattern,
          req_vars, bat_vars, fn_vars>>

None == <<>>

Min(a, b) == IF a <= b THEN a ELSE b
Max(a, b) == IF a >= b THEN a ELSE b

\* sum(f(x) for x in seq)
RECURSIVE SumSeq(_)
SumSeq(s) == IF s = <<>> THEN 0 ELSE Head(s) + SumSeq(Tail(s))

\* the last n elements of s
LastN(s, n) == IF Len(s) <= n THEN s ELSE SubSeq(s, Len(s) - n + 1, Len(s))

\* the largest r with r * r <= x, searched between lo and hi
RECURSIVE ISqrtIn(_, _, _)
ISqrtIn(x, lo, hi) ==
    IF lo >= hi THEN lo
    ELSE LET mid == (lo + hi + 1) \div 2
         IN IF mid * mid <= x THEN ISqrtIn(x, mid, hi) ELSE ISqrtIn(x, lo, mid - 1)

ISqrt(x) == ISqrtIn(x, 0, 46340)

Squares(s) == [i \in DOMAIN s |-> s[i] * s[i]]

\* n * sum(q^2) - sum(q)^2: n^2 times the population variance of q
VarTimesN2(q) == Len(q) * SumSeq(Squares(q)) - SumSeq(q) * SumSeq(q)

-----------------------------------------------------------------------------
(* Bounds of the model *)

\* the capacity the monitor is constructed with (max_history_size)
MaxHistorySize == 2
\* number of threads calling the monitor concurrently
NumThreads == 2
\* calls issued in a concurrent run
MaxCalls == 3
\* sequential run: records made after a clear, of which the first FreeRecords are
\* arbitrary and the rest follow one of MaxPattern workloads; clears issued
MaxRecords == 102
FreeRecords == 2
MaxPattern == 2
MaxClears == 1

-----------------------------------------------------------------------------
(* PerformanceMonitor: the updates of record_forecast_metrics *)

\* deque(maxlen=100) of processing times
ProcessingTimesMaxLen == 100
slow_request_threshold_ms == 5000
low_confidence_threshold == 300
low_quality_threshold == 500

\* deque.append on a deque with maxlen: the oldest element is discarded when full
DequeAppend(d, x, maxlen) == LastN(Append(d, x), maxlen)

\* a bug that keeps a full history as it is and drops the new record
HistoryAppendKeepOldest(h, m) == IF Len(h) >= MaxHistorySize THEN h ELSE Append(h, m)

\* self.metrics_history.append(metrics)
HistoryAppend(h, m) == DequeAppend(h, m, MaxHistorySize)

PerfEntry(m) == [confidence      |-> m.confidence_score,
                 quality         |-> m.data_quality_score,
                 processing_time |-> m.processing_time_ms,
                 success         |-> m.success]

\* d[k] of a defaultdict(list): the list stored under k, created empty on first use
ListAt(mp, k) == IF k \in DOMAIN mp THEN mp[k] ELSE <<>>

\* a bug that stores the entry in place of the list
PerfAppendOverwrite(mp, m) ==
    [k \in DOMAIN mp \cup {m.model_used} |->
        IF k = m.model_used THEN <<PerfEntry(m)>> ELSE mp[k]]

\* per-model lists that keep only as many entries as the rolling history
PerfAppendEvicting(mp, m) ==
    [k \in DOMAIN mp \cup {m.model_used} |->
        IF k = m.model_used
        THEN LastN(Append(ListAt(mp, k), PerfEntry(m)), MaxHistorySize)
        ELSE mp[k]]

\* self.model_performance[metrics.model_used].append({...})
PerfAppend(mp, m) ==
    [k \in DOMAIN mp \cup {m.model_used} |->
        IF k = m.model_used THEN Append(ListAt(mp, k), PerfEntry(m)) ELSE mp[k]]

\* self.processing_times.append(metrics.processing_time_ms)
TimesAppend(pt, m) == DequeAppend(pt, m.processing_time_ms, ProcessingTimesMaxLen)

\* metrics.error_message or 'unknown_error'
ErrorKey(m) == IF m.error_message = None THEN <<"unknown_error">> ELSE m.error_message

\* if not metrics.success: self.error_counts[...] += 1
ErrorCount(ec, m) ==
    IF m.success THEN ec
    ELSE [k \in DOMAIN ec \cup {ErrorKey(m)} |->
            IF k = ErrorKey(m)
            THEN (IF k \in DOMAIN ec THEN ec[k] ELSE 0) + 1
            ELSE ec[k]]

EmptyDict == [k \in {} |-> 0]


-----------------------------------------------------------------------------
(* PerformanceMonitor: the read operations *)

IsSuccess(m) == m.success

\* get_performance_summary, with cutoff_time = now - hours already taken
GetPerformanceSummary(history, cutoff_time) ==
    LET InWindow(m) == m.timestamp >= cutoff_time
        recent_metrics == SelectSeq(history, InWindow)
        successful_metrics == SelectSeq(recent_metrics, IsSuccess)
        IsTallied(m) == ~m.success /\ m.error_message # None
        tallied == SelectSeq(recent_metrics, IsTallied)
        used == {successful_metrics[i].model_used : i \in DOMAIN successful_metrics}
        msgs == {tallied[i].error_message : i \in DOMAIN tallied}
        total_requests == Len(recent_metrics)
        successful_requests == Len(successful_metrics)
    IN IF recent_metrics = <<>>
       THEN [message |-> "No metrics available for the specified time period"]
       ELSE [total_requests      |-> total_requests,
             successful_requests |-> successful_requests,
             failed_requests     |-> total_requests - successful_requests,
             \* success_rate as the fraction <<numerator, denominator>>
             success_rate        |-> <<successful_requests, total_requests>>,
             slow_requests       |->
                 LET Slow(m) == m.processing_time_ms > slow_request_threshold_ms
                 IN Len(SelectSeq(recent_metrics, Slow)),
             low_confidence_forecasts |->
                 LET Low(m) == m.confidence_score < low_confidence_threshold
                 IN Len(SelectSeq(successful_metrics, Low)),
             low_quality_data    |->
                 LET Low(m) == m.data_quality_score < low_quality_threshold
                 IN Len(SelectSeq(successful_metrics, Low)),
             model_usage         |->
                 [k \in used |->
                    LET Uses(m) == m.model_used = k
                    IN Len(SelectSeq(successful_metrics, Uses))],
             recent_errors       |->
                 [k \in msgs |->
                    LET Has(m) == m.error_message = k
                    IN Len(SelectSeq(tallied, Has))]]

PerfSuccess(p) == p.success

\* _calculate_std: the sample standard deviation, 0.0 for fewer than two values;
\* the square root is rounded down to a whole number of thousandths
CalculateStd(values) ==
    IF Len(values) < 2 THEN 0
    ELSE ISqrt(VarTimesN2(values) \div (Len(values) * (Len(values) - 1)))

\* an average, as the fraction <<sum, count>>
Average(values) == <<SumSeq(values), Len(values)>>

\* a comparison whose averages run over every run of the model
ComparisonOverAllRuns(mp) ==
    LET listed == {k \in DOMAIN mp : Len(SelectSeq(mp[k], PerfSuccess)) > 0}
    IN [k \in listed |->
          LET successful_runs == mp[k]
              confidences == [i \in DOMAIN successful_runs |-> successful_runs[i].confidence]
              qualities == [i \in DOMAIN successful_runs |-> successful_runs[i].quality]
              times == [i \in DOMAIN successful_runs |-> successful_runs[i].processing_time]
          IN [total_runs      |-> Len(mp[k]),
              successful_runs |-> Len(SelectSeq(mp[k], PerfSuccess)),
              success_rate    |-> <<Len(SelectSeq(mp[k], PerfSuccess)), Len(mp[k])>>,
              avg_confidence  |-> Average(confidences),
              avg_quality     |-> Average(qualities),
              avg_processing_time_ms |-> Average(times),
              confidence_std  |-> CalculateStd(confidences),
              quality_std     |-> CalculateStd(qualities)]]

\* get_model_performance_comparison: one entry per model with a successful run
GetModelPerformanceComparison(mp) ==
    LET listed == {k \in DOMAIN mp : Len(SelectSeq(mp[k], PerfSuccess)) > 0}
    IN [k \in listed |->
          LET successful_runs == SelectSeq(mp[k], PerfSuccess)
              confidences == [i \in DOMAIN successful_runs |-> successful_runs[i].confidence]
              qualities == [i \in DOMAIN successful_runs |-> successful_runs[i].quality]
              times == [i \in DOMAIN successful_runs |-> successful_runs[i].processing_time]
          IN [total_runs      |-> Len(mp[k]),
              successful_runs |-> Len(successful_runs),
              success_rate    |-> <<Len(successful_runs), Len(mp[k])>>,
              avg_confidence  |-> Average(confidences),
              avg_quality     |-> Average(qualities),
              avg_processing_time_ms |-> Average(times),
              confidence_std  |-> CalculateStd(confidences),
              quality_std     |-> CalculateStd(qualities)]]

\* an export that lists the newest record first
ExportMetricsNewestFirst(history, format) ==
    IF format = "json"
    THEN [raised |-> FALSE, data |-> [i \in DOMAIN history |-> history[Len(history) + 1 - i]]]
    ELSE [raised |-> TRUE, data |-> <<"Unsupported export format: ", format>>]

\* export_metrics: the history as a list of dicts, or ValueError
ExportMetrics(history, format) ==
    IF format = "json"
    THEN [raised |-> FALSE, data |-> history]
    ELSE [raised |-> TRUE, data |-> <<"Unsupported export format: ", format>>]


-----------------------------------------------------------------------------
(* DataValidator (services/data_validator.py).  A sales point is            *)
(* [date, quantity_sold]; a date is a day number, or BadDate for a string   *)
(* pd.to_datetime cannot parse.  Scores are in thousandths; a term that is  *)
(* not a whole number of thousandths is rounded down.                       *)

MIN_DATA_POINTS == 14
MIN_DAYS_SPAN == 14
BadDate == -1

Abs(x) == IF x < 0 THEN -x ELSE x
Sign(x) == IF x > 0 THEN 1 ELSE IF x < 0 THEN -1 ELSE 0

RECURSIVE SeqMax(_)
SeqMax(s) == IF Len(s) = 1 THEN s[1] ELSE Max(Head(s), SeqMax(Tail(s)))

RECURSIVE SeqMin(_)
SeqMin(s) == IF Len(s) = 1 THEN s[1] ELSE Min(Head(s), SeqMin(Tail(s)))

\* insert x into the sorted sequence s, after the elements whose key is <= x's
RECURSIVE InsertByDate(_, _)
InsertByDate(s, x) ==
    IF s = <<>> THEN <<x>>
    ELSE IF Head(s).date <= x.date THEN <<Head(s)>> \o InsertByDate(Tail(s), x)
         ELSE <<x>> \o s

\* df.sort_values('date')
RECURSIVE SortByDate(_)
SortByDate(s) ==
    IF s = <<>> THEN <<>>
    ELSE InsertByDate(SortByDate(SubSeq(s, 1, Len(s) - 1)), s[Len(s)])

RECURSIVE InsertNum(_, _)
InsertNum(s, x) ==
    IF s = <<>> THEN <<x>>
    ELSE IF Head(s) <= x THEN <<Head(s)>> \o InsertNum(Tail(s), x)
         ELSE <<x>> \o s

RECURSIVE SortNum(_)
SortNum(s) ==
    IF s = <<>> THEN <<>>
    ELSE InsertNum(SortNum(SubSeq(s, 1, Len(s) - 1)), s[Len(s)])

Dates(df) == [i \in DOMAIN df |-> df[i].date]
Quantities(df) == [i \in DOMAIN df |-> df[i].quantity_sold]

ZeroCount(q) == Cardinality({i \in DOMAIN q : q[i] = 0})


\* _analyze_trend_consistency, times 1000: the sign of the first difference of the
\* 3-point moving average at i is the sign of q[i+3] - q[i]
TrendConsistency(q) ==
    IF Len(q) < 7 THEN 0
    ELSE LET n == Len(q)
             sgn == [i \in 1 .. n - 3 |-> Sign(q[i + 3] - q[i])]
             changes == Cardinality({i \in 1 .. n - 4 : sgn[i + 1] # sgn[i]})
         IN ((n - 4 - changes) * 1000) \div (n - 4)

\* pd.Series(q).autocorr(lag=7): Pearson correlation of q[8..n] with q[1..n-7],
\* absolute value times 1000; 0 when it is NaN (a constant side)
AutocorrAbs(q) ==
    LET n == Len(q)
        m == n - 7
        x == [i \in 1 .. m |-> q[i]]
        y == [i \in 1 .. m |-> q[i + 7]]
        sxy == m * SumSeq([i \in 1 .. m |-> x[i] * y[i]]) - SumSeq(x) * SumSeq(y)
        sxx == VarTimesN2(x)
        syy == VarTimesN2(y)
    IN IF m < 2 \/ sxx = 0 \/ syy = 0 THEN 0
       ELSE Min(1000, (1000 * Abs(sxy)) \div Max(1, ISqrt(sxx * syy)))

\* _analyze_seasonality_strength, times 1000
SeasonalityStrength(q) == IF Len(q) < 14 THEN 0 ELSE AutocorrAbs(q)

\* 4 * np.percentile(q, 25 * k) for k = 1, 2, 3 (linear interpolation): with
\* h = k * (n - 1), the percentile is s[h div 4 + 1] + (h mod 4)/4 * (next - it)
Percentile4(sorted, k) ==
    LET h == k * (Len(sorted) - 1)
        lo == h \div 4 + 1
        hi == Min(lo + 1, Len(sorted))
    IN 4 * sorted[lo] + (h % 4) * (sorted[hi] - sorted[lo])

\* number of points outside [Q1 - 1.5 IQR, Q3 + 1.5 IQR]
IqrOutliers(q) ==
    LET sorted == SortNum(q)
        q1 == Percentile4(sorted, 1)
        q3 == Percentile4(sorted, 3)
        iqr == q3 - q1
    IN Cardinality({i \in DOMAIN q :
            \/ 8 * q[i] < 2 * q1 - 3 * iqr
            \/ 8 * q[i] > 2 * q3 + 3 * iqr})

\* number of points with |stats.zscore| > 3 (population standard deviation); a
\* constant series gives NaN scores, which compare False
ZOutliers(q) ==
    LET n == Len(q)
        v == VarTimesN2(q)
    IN Cardinality({i \in DOMAIN q :
            (n * q[i] - SumSeq(q)) * (n * q[i] - SumSeq(q)) > 9 * v})

\* 2 * np.median(s)
Median2(s) ==
    LET sorted == SortNum(s)
        n == Len(s)
    IN IF n % 2 = 1 THEN 2 * sorted[(n + 1) \div 2]
       ELSE sorted[n \div 2] + sorted[n \div 2 + 1]

\* number of points whose modified z-score 0.6745 (q - median) / MAD exceeds 3.5
ModifiedZOutliers(q) ==
    LET med2 == Median2(q)
        dev2 == [i \in DOMAIN q |-> Abs(2 * q[i] - med2)]
        mad4 == Median2(dev2)
    IN IF mad4 = 0 THEN 0
       ELSE Cardinality({i \in DOMAIN q : 6745 * 2 * dev2[i] > 35000 * mad4})

\* _assess_outlier_impact, times 1000: min(1, 2 * mean of the three ratios)
OutlierImpact(q) ==
    IF Len(q) < 4 THEN 0
    ELSE LET c == IqrOutliers(q) + ZOutliers(q) + ModifiedZOutliers(q)
         IN Min(1000, (2000 * c) \div (3 * Len(q)))

\* DBSCAN(eps=0.5, min_samples=3) on the standardized quantities: the number of
\* noise points, those neither core nor within eps of a core point
DbscanNoise(q) ==
    LET n == Len(q)
        v == VarTimesN2(q)
        Near(i, j) == IF v = 0 THEN TRUE
                      ELSE 4 * n * n * (q[i] - q[j]) * (q[i] - q[j]) <= v
        Core(i) == Cardinality({j \in DOMAIN q : Near(i, j)}) >= 3
    IN Cardinality({i \in DOMAIN q :
            ~Core(i) /\ ~\E j \in DOMAIN q : Core(j) /\ Near(i, j)})

\* _has_significant_outliers
HasSignificantOutliers(q) ==
    IF Len(q) < 4 THEN FALSE
    ELSE \/ 10 * IqrOutliers(q) > Len(q)
         \/ 10 * ZOutliers(q) > Len(q)
         \/ Len(q) >= 10 /\ 10 * DbscanNoise(q) > Len(q)

\* the tests of _calculate_data_quality_score on a frame sorted by date
Gaps(df) == [i \in 1 .. Len(df) - 1 |-> df[i + 1].date - df[i].date]
AvgGapOver2(df) == SumSeq(Gaps(df)) > 2 * Len(Gaps(df))
GapStdOver3(df) ==
    Len(Gaps(df)) >= 2
    /\ VarTimesN2(Gaps(df)) > 9 * Len(Gaps(df)) * (Len(Gaps(df)) - 1)
\* cv > c, for cv = np.std(q) / np.mean(q) when the mean is positive, else 0
CvOver(q, c) == SumSeq(q) > 0 /\ VarTimesN2(q) > c * c * SumSeq(q) * SumSeq(q)
ZeroRatioOver50(q) == 2 * ZeroCount(q) > Len(q)
ZeroRatioOver30(q) == 10 * ZeroCount(q) > 3 * Len(q)

ZeroPenaltyNone(q) == 0

\* the two tests in the other order: the 0.3 test shadows the 0.5 one
ZeroPenaltyShadowed(q) ==
    IF ZeroRatioOver30(q) THEN 150 ELSE IF ZeroRatioOver50(q) THEN 250 ELSE 0

\* the zero-sales step of the score
ZeroPenalty(q) ==
    IF ZeroRatioOver50(q) THEN 250 ELSE IF ZeroRatioOver30(q) THEN 150 ELSE 0

\* _calculate_data_quality_score: the score before clamping
RawQualityScore(df, today) ==
    LET q == Quantities(df)
        days_since_last == today - SeqMax(Dates(df))
    IN 1000
       - (IF AvgGapOver2(df) THEN 150 ELSE 0)
       - (IF GapStdOver3(df) THEN 100 ELSE 0)
       - (IF CvOver(q, 2) THEN 150 ELSE IF CvOver(q, 1) THEN 50 ELSE 0)
       - ZeroPenalty(q)
       + TrendConsistency(q) \div 10
       + SeasonalityStrength(q) \div 10
       - OutlierImpact(q) \div 5
       + (IF days_since_last <= 7 THEN 50 ELSE IF days_since_last > 30 THEN -100 ELSE 0)

\* a score returned as it was summed
DataQualityScoreUnclamped(df, today) == RawQualityScore(df, today)

\* max(0.0, min(1.0, score))
DataQualityScore(df, today) == Max(0, Min(1000, RawQualityScore(df, today)))

\* the warnings _calculate_data_quality_score appends, in order
QualityWarnings(df, today) ==
    LET q == Quantities(df)
        days_since_last == today - SeqMax(Dates(df))
    IN (IF AvgGapOver2(df)
        THEN <<<<"Irregular data frequency detected. Daily data recommended for best accuracy.">>>>
        ELSE <<>>)
       \o (IF GapStdOver3(df)
           THEN <<<<"Inconsistent data collection intervals detected.">>>> ELSE <<>>)
       \o (IF CvOver(q, 2)
           THEN <<<<"High sales variability detected. Forecast confidence may be lower.">>>>
           ELSE <<>>)
       \o (IF ZeroRatioOver50(q)
           THEN <<<<"More than 50% zero sales days. Consider product lifecycle stage.">>>>
           ELSE <<>>)
       \o (IF days_since_last > 30
           THEN <<<<"Data is ", ToString(days_since_last),
                    " days old. Recent data improves accuracy.">>>>
           ELSE <<>>)

ValidationResult(valid, insufficient, msg, warnings, score) ==
    [is_valid |-> valid, insufficient_data |-> insufficient, error_message |-> msg,
     warnings |-> warnings, data_quality_score |-> score]

HasBadDate(sales_data) == \E i \in DOMAIN sales_data : sales_data[i].date = BadDate

DateSpan(sales_data) == SeqMax(Dates(sales_data)) - SeqMin(Dates(sales_data))

\* a validator whose span test admits a span of MIN_DAYS_SPAN - 1 days
SpanTooShortOffByOne(sales_data) == DateSpan(sales_data) < MIN_DAYS_SPAN - 1

\* date_span < self.MIN_DAYS_SPAN
SpanTooShort(sales_data) == DateSpan(sales_data) < MIN_DAYS_SPAN

\* validate_sales_data(sales_data), with datetime.now() falling on day `today`
ValidateSalesData(sales_data, today) ==
    IF Len(sales_data) = 0
    THEN ValidationResult(FALSE, TRUE, <<"No sales data provided">>, <<>>, 0)
    ELSE IF Len(sales_data) < MIN_DATA_POINTS
    THEN ValidationResult(FALSE, TRUE,
            <<"Insufficient data points. Need at least ", ToString(MIN_DATA_POINTS),
              " data points, got ", ToString(Len(sales_data))>>, <<>>, 0)
    ELSE IF HasBadDate(sales_data)
    THEN ValidationResult(FALSE, FALSE,
            <<"Invalid date format in sales data: ", "Unknown datetime string format">>,
            <<>>, 0)
    ELSE IF SpanTooShort(sales_data)
    THEN ValidationResult(FALSE, TRUE,
            <<"Data span too short. Need at least ", ToString(MIN_DAYS_SPAN),
              " days of data, got ", ToString(DateSpan(sales_data)), " days">>, <<>>, 0)
    ELSE LET df == SortByDate(sales_data)
             q == Quantities(df)
             days_since_last_sale == today - SeqMax(Dates(df))
         IN ValidationResult(TRUE, FALSE, None,
                QualityWarnings(df, today)
                \o (IF days_since_last_sale > 30
                    THEN <<<<"Last sale was ", ToString(days_since_last_sale),
                             " days ago. Forecast may be less accurate.">>>>
                    ELSE <<>>)
                \o (IF ZeroRatioOver50(q)
                    THEN <<<<"More than 50% of data points have zero sales. This may affect forecast accuracy.">>>>
                    ELSE <<>>)
                \o (IF HasSignificantOutliers(q)
                    THEN <<<<"Significant outliers detected in sales data. Consider reviewing for data entry errors.">>>>
                    ELSE <<>>),
                DataQualityScore(df, today))

-----------------------------------------------------------------------------
(* ForecastProcessor (services/forecast_processor.py).  Confidence scores  *)
(* are in thousandths, predictions in tenths of a unit.  The comparisons   *)
(* with x * 1.1 are taken exactly: 10 * y > 11 * x.                        *)

\* ForecastResult(...), models/forecasting_models.py:35-49
ForecastResult(preds, intervals, name, trend, seasonality, conf, quality, params) ==
    [predictions |-> preds, confidence_intervals |-> intervals,
     model_name |-> name, trend |-> trend, seasonality_detected |-> seasonality,
     confidence_score |-> conf, data_quality_score |-> quality,
     model_params |-> params]

\* a prediction that is not a number
NaN == -1

HasNaN(predictions) == \E i \in DOMAIN predictions : predictions[i] = NaN

\* (arima_result.predictions + prophet_result.predictions) / 2, elementwise; the
\* average with something that is not a number is not a number
EnsemblePredictions(a, b) ==
    [i \in DOMAIN a |-> IF a[i] = NaN \/ b[i] = NaN THEN NaN ELSE (a[i] + b[i]) \div 2]

\* an ensemble that takes the trend and seasonality of ARIMA when the confidences tie
EnsembleResultTiesToArima(arima, prophet) ==
    LET more == IF prophet.confidence_score > arima.confidence_score
                THEN prophet ELSE arima
    IN ForecastResult(
           EnsemblePredictions(arima.predictions, prophet.predictions),
           None, "Ensemble-ARIMA-Prophet", more.trend, more.seasonality_detected,
           (arima.confidence_score + prophet.confidence_score) \div 2,
           0, None)

\* lines 107-125: the ensemble of the two results
EnsembleResult(arima, prophet) ==
    LET more == IF prophet.confidence_score >= arima.confidence_score
                THEN prophet ELSE arima
    IN ForecastResult(
           EnsemblePredictions(arima.predictions, prophet.predictions),
           None, "Ensemble-ARIMA-Prophet", more.trend, more.seasonality_detected,
           (arima.confidence_score + prophet.confidence_score) \div 2,
           0, None)

\* a comparison that is not strict
DecisiveOrEqual(a, b) == 10 * a >= 11 * b

\* a > b * 1.1
Decisive(a, b) == 10 * a > 11 * b

\* a selector that takes the zero-confidence tests in the other order
SelectProphetFirst(arima, prophet) ==
    IF prophet.confidence_score = 0 THEN arima
    ELSE IF arima.confidence_score = 0 THEN prophet
    ELSE IF Decisive(prophet.confidence_score, arima.confidence_score)
            /\ prophet.seasonality_detected
    THEN prophet
    ELSE IF Decisive(arima.confidence_score, prophet.confidence_score)
    THEN arima
    ELSE EnsembleResult(arima, prophet)

\* _select_best_forecast(arima, prophet)
SelectBestForecast(arima, prophet) ==
    IF arima.confidence_score = 0 THEN prophet
    ELSE IF prophet.confidence_score = 0 THEN arima
    ELSE IF Decisive(prophet.confidence_score, arima.confidence_score)
            /\ prophet.seasonality_detected
    THEN prophet
    ELSE IF Decisive(arima.confidence_score, prophet.confidence_score)
    THEN arima
    ELSE EnsembleResult(arima, prophet)

\* int(np.sum(predictions)): the sum in tenths, truncated to whole units
TotalForecast(predictions) == SumSeq(predictions) \div 10

\* _calculate_lead_time_demand(predictions, lead_time_days, forecast_days)
CalculateLeadTimeDemand(predictions, lead_time_days, forecast_days) ==
    IF lead_time_days <= 0 THEN 0
    ELSE IF lead_time_days > forecast_days
    THEN (SumSeq(predictions) * lead_time_days) \div (Len(predictions) * 10)
    ELSE SumSeq(SubSeq(predictions, 1, Min(lead_time_days, Len(predictions)))) \div 10

\* a safety stock rounded up to the next unit
SafetyStockCeiling(forecast_demand) == (forecast_demand + 4) \div 5

\* safety_stock = int(forecast_demand * 0.2): int() drops the fraction
SafetyStock(forecast_demand) == forecast_demand \div 5

\* total_demand = forecast_demand + lead_time_demand + safety_stock
TotalDemand(forecast_demand, lead_time_demand) ==
    forecast_demand + lead_time_demand + SafetyStock(forecast_demand)

\* min_order = max(1, int(forecast_demand * 0.1))
MinOrder(forecast_demand) == Max(1, forecast_demand \div 10)

\* _calculate_reorder_quantity(current_stock, forecast_demand, lead_time_demand)
CalculateReorderQuantity(current_stock, forecast_demand, lead_time_demand) ==
    LET total_demand == TotalDemand(forecast_demand, lead_time_demand)
    IN IF current_stock >= total_demand THEN 0
       ELSE Max(total_demand - current_stock, MinOrder(forecast_demand))

\* stockout_day of a forecast that never exceeds the stock: None
NoDay == 0

\* a test that also counts demand equal to the stock as a stockout
ExceedsOrEqual(demand, current_stock) == demand >= current_stock * 10

\* demand > current_stock, demand in tenths of a unit
Exceeds(demand, current_stock) == demand > current_stock * 10

\* np.cumsum(predictions)[day - 1]
CumulativeDemand(predictions, day) == SumSeq(SubSeq(predictions, 1, day))

\* the loop of lines 176-179 from `day` on: the first day whose cumulative demand
\* exceeds the stock
RECURSIVE FirstStockoutDay(_, _, _)
FirstStockoutDay(current_stock, predictions, day) ==
    IF day > Len(predictions) THEN NoDay
    ELSE IF Exceeds(CumulativeDemand(predictions, day), current_stock) THEN day
    ELSE FirstStockoutDay(current_stock, predictions, day + 1)

\* _calculate_stockout_risk(current_stock, predictions)
CalculateStockoutRisk(current_stock, predictions) ==
    LET stockout_day == FirstStockoutDay(current_stock, predictions, 1)
    IN [stockout_risk |-> stockout_day # NoDay,
        stockout_day |-> stockout_day,
        days_of_stock |-> IF stockout_day = NoDay THEN Len(predictions)
                          ELSE stockout_day - 1]

\* ItemForecast(...), lines 65-76; `x or 0.8` is 0.8 when x is 0
ItemForecast(sku, current_stock, best, lead_time_days, forecast_days) ==
    LET total_forecast == TotalForecast(best.predictions)
        lead_time_demand == CalculateLeadTimeDemand(best.predictions,
                                                    lead_time_days, forecast_days)
    IN [sku |-> sku,
        current_stock |-> current_stock,
        forecast_7_day |-> total_forecast,
        recommended_order |->
            CalculateReorderQuantity(current_stock, total_forecast, lead_time_demand),
        confidence_score |-> best.confidence_score,
        trend |-> best.trend,
        seasonality_detected |-> best.seasonality_detected,
        lead_time_factored |-> lead_time_days,
        model_used |-> best.model_name,
        data_quality_score |-> IF best.data_quality_score = 0 THEN 800
                               ELSE best.data_quality_score]

-----------------------------------------------------------------------------
(* Metrics handed to the monitor *)

Metrics(ts, sku, user, model, ptime, points, days, conf, quality, ok, err) ==
    [timestamp |-> ts, sku |-> sku, user_id |-> user, model_used |-> model,
     processing_time_ms |-> ptime, data_points |-> points, forecast_days |-> days,
     confidence_score |-> conf, data_quality_score |-> quality,
     success |-> ok, error_message |-> err]

\* metrics a caller of record_forecast_metrics may pass
MonMetrics ==
    << Metrics(1, "SKU-1", "u1", "ARIMA-Simple", 0, 15, 7, 500, 800, TRUE, None),
       Metrics(1, "SKU-2", "u1", "validation_failed", 0, 5, 7, 0, 0, FALSE,
               <<"No sales data provided">>),
       Metrics(2, "SKU-1", "u1", "Prophet-Advanced", 6000, 15, 7, 200, 400, TRUE, None),
       Metrics(2, "SKU-2", "u1", "ARIMA-Simple", 0, 15, 7, 0, 0, FALSE, None) >>

MonMetricsSet == {MonMetrics[i] : i \in DOMAIN MonMetrics}

\* the i-th record (counted from 0) of workload p: the metrics cycle with stride p
\* and the processing time cycles through 0, 1000, ..., 6000
PatternMetrics(p, i) ==
    [MonMetrics[((i * p) % Len(MonMetrics)) + 1]
        EXCEPT !.processing_time_ms = (i % 7) * 1000]

-----------------------------------------------------------------------------
(* PerformanceMonitor called from one thread: each call runs to completion *)

\* record_forecast_metrics(metrics), monitoring.py:55-78
MonitorRecord(m) ==
    /\ metrics_history' = HistoryAppend(metrics_history, m)
    /\ model_performance' = PerfAppend(model_performance, m)
    /\ processing_times' = TimesAppend(processing_times, m)
    /\ error_counts' = ErrorCount(error_counts, m)
    /\ since_clear' = Append(since_clear, m)
    /\ lock' = lock

\* a clear that leaves the error counts as they are
MonitorClearKeepsErrors ==
    /\ metrics_history' = <<>>
    /\ model_performance' = EmptyDict
    /\ error_counts' = error_counts
    /\ processing_times' = <<>>
    /\ since_clear' = <<>>
    /\ lock' = lock

\* clear_metrics(), monitoring.py:186-193
MonitorClear ==
    /\ metrics_history' = <<>>
    /\ model_performance' = EmptyDict
    /\ error_counts' = EmptyDict
    /\ processing_times' = <<>>
    /\ since_clear' = <<>>
    /\ lock' = lock

MonitorInit ==
    /\ metrics_history = <<>>
    /\ model_performance = EmptyDict
    /\ error_counts = EmptyDict
    /\ processing_times = <<>>
    /\ lock = 0
    /\ since_clear = <<>>

\* ForecastTimer.__init__: start_time = None, end_time = None. None is falsy, and so
\* is a time of 0, which is what get_duration_ms tests; the clock starts at 1
NoTime == 0

\* no request is being handled
RequestIdle ==
    /\ now = 1
    /\ request = None
    /\ rpc = "idle"
    /\ timer = [start_time |-> NoTime, end_time |-> NoTime]
    /\ validation_result = None
    /\ arima_result = None
    /\ prophet_result = None
    /\ best_result = None
    /\ forecast_result = None
    /\ response = None
    /\ exc = None
    /\ raised = None
    /\ steps = <<>>
    /\ records_made = 0
    /\ failure = None

\* no batch is being handled
BatchIdle ==
    /\ items = <<>>
    /\ item_idx = 0
    /\ bpc = "none"
    /\ forecasts = <<>>
    /\ insufficient_data_items = <<>>
    /\ failed_items = <<>>
    /\ all_warnings = <<>>
    /\ batch_response = None

\* no function is being applied
FnIdle ==
    /\ fn_args = None
    /\ fn_result = <<>>
    /\ fn_log = <<>>

Threads == 1 .. NumThreads

ThreadsIdle ==
    /\ tpc = [t \in Threads |-> "idle"]
    /\ tcall = [t \in Threads |-> [op |-> "none"]]
    /\ tret = [t \in Threads |-> None]

SeqInputs(i) ==
    IF i < FreeRecords THEN MonMetricsSet ELSE {PatternMetrics(pattern, i)}

SeqRecord ==
    /\ Len(since_clear) < MaxRecords
    /\ \E m \in SeqInputs(Len(since_clear)) : MonitorRecord(m)
    /\ UNCHANGED <<thr_vars, calls_left, clears_left, pattern, app_vars>>

SeqClear ==
    /\ clears_left > 0
    /\ clears_left' = clears_left - 1
    /\ MonitorClear
    /\ UNCHANGED <<thr_vars, calls_left, pattern, app_vars>>

InitSeq ==
    /\ MonitorInit
    /\ ThreadsIdle
    /\ calls_left = 0
    /\ clears_left = MaxClears
    /\ pattern \in 1 .. MaxPattern
    /\ RequestIdle
    /\ BatchIdle
    /\ FnIdle

NextSeq == SeqRecord \/ SeqClear

SpecSeq == InitSeq /\ [][NextSeq]_vars


-----------------------------------------------------------------------------
(* PerformanceMonitor called from several threads.  Every operation is     *)
(* `with self._lock:` around its whole body; the statements of a body are  *)
(* separate steps, so that other threads run between them.                 *)

\* threading.Lock.acquire succeeds only on a free lock
LockFreeAlways(l) == TRUE

LockFree(l) == l = 0

\* positions at which a thread is inside the `with self._lock:` block
RecordBody == {"rec_hist", "rec_perf", "rec_times", "rec_err"}
ReaderBody == {"summary", "comparison", "export", "clear"}

MonCalls ==
    {[op |-> "record", metrics |-> m] : m \in MonMetricsSet}
    \cup {[op |-> "summary", cutoff_time |-> 2]}
    \cup {[op |-> "comparison"]}
    \cup {[op |-> "export", format |-> f] : f \in {"json", "csv"}}
    \cup {[op |-> "clear"]}

FirstStep(call) == IF call.op = "record" THEN "rec_hist" ELSE call.op

\* a thread calls an operation of the monitor and reaches its `with self._lock:`
Call(t) ==
    /\ tpc[t] = "idle"
    /\ calls_left > 0
    /\ calls_left' = calls_left - 1
    /\ \E c \in MonCalls : tcall' = [tcall EXCEPT ![t] = c]
    /\ tpc' = [tpc EXCEPT ![t] = "lock"]
    /\ tret' = [tret EXCEPT ![t] = None]
    /\ UNCHANGED <<mon_vars, since_clear, clears_left, pattern, app_vars>>

\* __enter__ of the lock
Acquire(t) ==
    /\ tpc[t] = "lock"
    /\ LockFree(lock)
    /\ lock' = t
    /\ tpc' = [tpc EXCEPT ![t] = FirstStep(tcall[t])]
    /\ UNCHANGED <<metrics_history, model_performance, error_counts, processing_times,
                   tcall, tret, since_clear, calls_left, clears_left, pattern, app_vars>>

\* monitoring.py:58
RecHist(t) ==
    /\ tpc[t] = "rec_hist"
    /\ metrics_history' = HistoryAppend(metrics_history, tcall[t].metrics)
    /\ since_clear' = Append(since_clear, tcall[t].metrics)
    /\ tpc' = [tpc EXCEPT ![t] = "rec_perf"]
    /\ UNCHANGED <<model_performance, error_counts, processing_times, lock,
                   tcall, tret, calls_left, clears_left, pattern, app_vars>>

\* monitoring.py:59-64
RecPerf(t) ==
    /\ tpc[t] = "rec_perf"
    /\ model_performance' = PerfAppend(model_performance, tcall[t].metrics)
    /\ tpc' = [tpc EXCEPT ![t] = "rec_times"]
    /\ UNCHANGED <<metrics_history, error_counts, processing_times, lock,
                   tcall, tret, since_clear, calls_left, clears_left, pattern, app_vars>>

\* monitoring.py:65
RecTimes(t) ==
    /\ tpc[t] = "rec_times"
    /\ processing_times' = TimesAppend(processing_times, tcall[t].metrics)
    /\ tpc' = [tpc EXCEPT ![t] = "rec_err"]
    /\ UNCHANGED <<metrics_history, model_performance, error_counts, lock,
                   tcall, tret, since_clear, calls_left, clears_left, pattern, app_vars>>

\* monitoring.py:67-78 (the log calls change no state)
RecErr(t) ==
    /\ tpc[t] = "rec_err"
    /\ error_counts' = ErrorCount(error_counts, tcall[t].metrics)
    /\ tpc' = [tpc EXCEPT ![t] = "unlock"]
    /\ UNCHANGED <<metrics_history, model_performance, processing_times, lock,
                   tcall, tret, since_clear, calls_left, clears_left, pattern, app_vars>>

\* monitoring.py:85-141
SummaryBody(t) ==
    /\ tpc[t] = "summary"
    /\ tret' = [tret EXCEPT ![t] =
                   GetPerformanceSummary(metrics_history, tcall[t].cutoff_time)]
    /\ tpc' = [tpc EXCEPT ![t] = "unlock"]
    /\ UNCHANGED <<mon_vars, tcall, since_clear, calls_left, clears_left, pattern, app_vars>>

\* monitoring.py:146-166
ComparisonBody(t) ==
    /\ tpc[t] = "comparison"
    /\ tret' = [tret EXCEPT ![t] = GetModelPerformanceComparison(model_performance)]
    /\ tpc' = [tpc EXCEPT ![t] = "unlock"]
    /\ UNCHANGED <<mon_vars, tcall, since_clear, calls_left, clears_left, pattern, app_vars>>

\* monitoring.py:180-184; a raise leaves the with block like a return does
ExportBody(t) ==
    /\ tpc[t] = "export"
    /\ tret' = [tret EXCEPT ![t] = ExportMetrics(metrics_history, tcall[t].format)]
    /\ tpc' = [tpc EXCEPT ![t] = "unlock"]
    /\ UNCHANGED <<mon_vars, tcall, since_clear, calls_left, clears_left, pattern, app_vars>>

\* monitoring.py:189-193
ClearBody(t) ==
    /\ tpc[t] = "clear"
    /\ metrics_history' = <<>>
    /\ model_performance' = EmptyDict
    /\ error_counts' = EmptyDict
    /\ processing_times' = <<>>
    /\ since_clear' = <<>>
    /\ tpc' = [tpc EXCEPT ![t] = "unlock"]
    /\ UNCHANGED <<lock, tcall, tret, calls_left, clears_left, pattern, app_vars>>

\* a lock that stays held when the body raised
ReleaseUnlessRaised(t) ==
    /\ tpc[t] = "unlock"
    /\ lock' = IF tcall[t].op = "export" /\ tret[t].raised THEN lock ELSE 0
    /\ tpc' = [tpc EXCEPT ![t] = "idle"]
    /\ UNCHANGED <<metrics_history, model_performance, error_counts, processing_times,
                   tcall, tret, since_clear, calls_left, clears_left, pattern, app_vars>>

\* __exit__ of the lock, on return and on raise
Release(t) ==
    /\ tpc[t] = "unlock"
    /\ lock' = 0
    /\ tpc' = [tpc EXCEPT ![t] = "idle"]
    /\ UNCHANGED <<metrics_history, model_performance, error_counts, processing_times,
                   tcall, tret, since_clear, calls_left, clears_left, pattern, app_vars>>

InitMon ==
    /\ MonitorInit
    /\ ThreadsIdle
    /\ calls_left = MaxCalls
    /\ clears_left = 0
    /\ pattern = 0
    /\ RequestIdle
    /\ BatchIdle
    /\ FnIdle

NextMon ==
    \E t \in Threads :
        \/ Call(t)
        \/ Acquire(t)
        \/ RecHist(t)
        \/ RecPerf(t)
        \/ RecTimes(t)
        \/ RecErr(t)
        \/ SummaryBody(t)
        \/ ComparisonBody(t)
        \/ ExportBody(t)
        \/ ClearBody(t)
        \/ Release(t)

SpecMon == InitMon /\ [][NextMon]_vars


-----------------------------------------------------------------------------
(* Properties of the monitor *)

AllReturned == \A t \in Threads : tpc[t] = "idle"

\* number of metrics recorded under model name k since the last clear
RecordedUnder(k) ==
    LET Under(m) == m.model_used = k IN Len(SelectSeq(since_clear, Under))

NamesRecorded == {since_clear[i].model_used : i \in DOMAIN since_clear}

\* total number of entries of the per-model lists over the model names in S
RECURSIVE EntriesOver(_, _)
EntriesOver(mp, S) ==
    IF S = {} THEN 0
    ELSE LET k == CHOOSE x \in S : TRUE
         IN Len(mp[k]) + EntriesOver(mp, S \ {k})

PerfTotal == EntriesOver(model_performance, DOMAIN model_performance)

\* C2: no update is lost under concurrency.  Once every call has returned, with k
\* records made by the threads since the last clear, the rolling history holds
\* min(N, k) records, the per-model lists hold k entries in total, one per call
\* under that call's model name, and the processing-time window holds min(100, k).
C2_NoLostUpdate ==
    AllReturned =>
        LET k == Len(since_clear)
        IN /\ Len(metrics_history) = Min(MaxHistorySize, k)
           /\ PerfTotal = k
           /\ \A name \in NamesRecorded \cup DOMAIN model_performance :
                  Len(ListAt(model_performance, name)) = RecordedUnder(name)
           /\ Len(processing_times) = Min(ProcessingTimesMaxLen, k)

\* both threads have made record calls, more than the history holds, all returned
C2_Witness ==
    /\ AllReturned
    /\ Len(since_clear) > MaxHistorySize
    /\ \A t \in {1, 2} : tcall[t].op = "record"

\* no record is applied in part: what was appended to the history since the last
\* clear is in the per-model lists and in the processing-time window too
Consistent ==
    /\ PerfTotal = Len(since_clear)
    /\ Len(processing_times) = Min(ProcessingTimesMaxLen, Len(since_clear))

\* C3: a record call is atomic to every other operation.  A thread inside the body
\* of any of the five operations holds the mutex, and a thread inside the body of
\* summarize, compareModels, export or clear never finds a record appended to the
\* history but not yet to its model's list and to the processing-time window.
C3_RecordAtomic ==
    \A t \in Threads :
        /\ tpc[t] \in RecordBody \cup ReaderBody \cup {"unlock"} => lock = t
        /\ tpc[t] \in ReaderBody => Consistent

\* a record is half applied while another thread waits to summarize, compare,
\* export or clear
C3_Witness ==
    \E t, u \in Threads :
        /\ tpc[u] \in {"rec_perf", "rec_times"}
        /\ tpc[t] = "lock"
        /\ tcall[t].op \in ReaderBody

\* C4: the rolling history never holds more than N records and is exactly the last
\* min(N, k) of the k records made since the last clear, in insertion order; the
\* processing-time window is exactly the last min(100, k) processing times.
C4_RollingHistory ==
    LET k == Len(since_clear)
        times == [i \in 1 .. k |-> since_clear[i].processing_time_ms]
    IN /\ Len(metrics_history) <= MaxHistorySize
       /\ metrics_history = LastN(since_clear, Min(MaxHistorySize, k))
       /\ processing_times = LastN(times, Min(ProcessingTimesMaxLen, k))

\* after a clear, more than 100 records have been made: both the history and the
\* processing-time window have evicted
C4_Witness ==
    /\ clears_left < MaxClears
    /\ Len(since_clear) > ProcessingTimesMaxLen
    /\ Len(since_clear) > MaxHistorySize

-----------------------------------------------------------------------------
(* _select_best_forecast applied to two candidates *)

\* confidence scores of the candidates, in thousandths: 0 (failed), a pair at exactly
\* 1.1 times each other, a tie, and the 0.4 / 0.9 pair
ArimaConfidences == {0, 400, 440, 500}
ProphetConfidences == {0, 400, 440, 500, 900}

\* what the ARIMA forecaster may hand to the selector
ArimaCandidates ==
    {ForecastResult(<<20, 40>>, <<"arima-intervals">>, name, trend, seasonality, conf,
                    0, <<"order">>) :
        name \in {"ARIMA(1,1,1)", "Moving-Average-Fallback"},
        trend \in {"increasing", "stable"},
        seasonality \in BOOLEAN,
        conf \in ArimaConfidences}

\* what the Prophet forecaster may hand to the selector
ProphetCandidates ==
    {ForecastResult(<<60, 40>>, <<"prophet-intervals">>, name, trend, seasonality, conf,
                    0, <<"components">>) :
        name \in {"Prophet-Advanced", "ARIMA-Fallback"},
        trend \in {"decreasing", "stable"},
        seasonality \in BOOLEAN,
        conf \in ProphetConfidences}

InitSelect ==
    /\ MonitorInit
    /\ ThreadsIdle
    /\ calls_left = 0
    /\ clears_left = 0
    /\ pattern = 0
    /\ RequestIdle
    /\ BatchIdle
    /\ fn_args \in {[arima_result |-> a, prophet_result |-> p] :
                        a \in ArimaCandidates, p \in ProphetCandidates}
    /\ fn_result = <<>>
    /\ fn_log = <<>>

\* best_result = self._select_best_forecast(arima_result, prophet_result)
ApplySelect ==
    /\ fn_result = <<>>
    /\ fn_result' = <<SelectBestForecast(fn_args.arima_result, fn_args.prophet_result)>>
    /\ UNCHANGED <<mon_vars, since_clear, drv_vars, req_vars, bat_vars, fn_args, fn_log>>

NextSelect == ApplySelect

SpecSelect == InitSelect /\ [][NextSelect]_vars

Selected == fn_result # <<>>
A == fn_args.arima_result
B == fn_args.prophet_result
Chosen == fn_result[1]

\* C9: when A's confidence is 0 the selector returns B, every field as given, also when
\* B's confidence is 0 too; when A's is not 0 and B's is 0 it returns A, every field as
\* given; in neither case is the result an ensemble
C9_ZeroConfidence ==
    Selected =>
        /\ A.confidence_score = 0 => Chosen = B
        /\ (A.confidence_score # 0 /\ B.confidence_score = 0) => Chosen = A
        /\ (A.confidence_score = 0 \/ B.confidence_score = 0) =>
               Chosen.model_name # "Ensemble-ARIMA-Prophet"

\* both candidates failed and the selector has returned B
C9_Witness ==
    /\ Selected
    /\ A.confidence_score = 0
    /\ B.confidence_score = 0
    /\ Chosen = B
    /\ Chosen # A

BothNonZero == A.confidence_score # 0 /\ B.confidence_score # 0
BDecisive == 10 * B.confidence_score > 11 * A.confidence_score /\ B.seasonality_detected
ADecisive == 10 * A.confidence_score > 11 * B.confidence_score

\* C10: with both confidences non-zero the selector returns B as given when B's
\* confidence exceeds 1.1 times A's and B detected seasonality; otherwise it returns A as
\* given when A's confidence exceeds 1.1 times B's; at exactly 1.1 times, either way
\* round, neither candidate is returned; A at 0.4 without seasonality against B at 0.9
\* with seasonality gives B
C10_DecisiveRules ==
    (Selected /\ BothNonZero) =>
        /\ BDecisive => Chosen = B
        /\ (~BDecisive /\ ADecisive) => Chosen = A
        /\ (10 * B.confidence_score = 11 * A.confidence_score
            \/ 10 * A.confidence_score = 11 * B.confidence_score) =>
               (Chosen # A /\ Chosen # B)
        /\ (A.confidence_score = 400 /\ ~A.seasonality_detected
            /\ B.confidence_score = 900 /\ B.seasonality_detected) => Chosen = B

\* B's confidence is exactly 1.1 times A's, B detected seasonality, and the selector
\* has built an ensemble
C10_Witness ==
    /\ Selected
    /\ A.confidence_score = 400
    /\ B.confidence_score = 440
    /\ B.seasonality_detected
    /\ Chosen.model_name = "Ensemble-ARIMA-Prophet"

-----------------------------------------------------------------------------
(* validate_sales_data applied to a sales history *)

\* the day datetime.now() falls on; dates are day numbers
Today == 100

\* the longest sales history
MaxPoints == 16

SeriesLengths == {0, 1, MIN_DATA_POINTS - 1, MIN_DATA_POINTS, MIN_DATA_POINTS + 1, MaxPoints}

QuantityPatterns == {"steady", "zeros", "sparse", "spike", "burst"}

\* quantity_sold of the i-th point of a pattern: steady sales, no sales at all, two
\* days in five without sales, one day of sixty among days of five or six, one day of
\* sixty among days without sales
QuantityAt(qpattern, i) ==
    CASE qpattern = "steady" -> 5 + (i % 3)
      [] qpattern = "zeros" -> 0
      [] qpattern = "sparse" -> IF i % 5 \in {0, 1} THEN 0 ELSE 4
      [] qpattern = "burst" -> IF i = 8 THEN 60 ELSE 0
      [] OTHER -> IF i = 8 THEN 60 ELSE 5 + (i % 2)

\* the reverse of s
Reverse(s) == [i \in DOMAIN s |-> s[Len(s) + 1 - i]]

\* a sales history of n points `gap` days apart whose last sale was `back` days ago;
\* point `bad`, if there is one, has a date pd.to_datetime rejects; listed newest
\* first if `newest_first`
MakeSeries(n, gap, back, qpattern, bad, newest_first) ==
    LET s == [i \in 1 .. n |->
                 [date |-> IF i = bad THEN BadDate ELSE Today - back - (n - i) * gap,
                  quantity_sold |-> QuantityAt(qpattern, i)]]
    IN IF newest_first THEN Reverse(s) ELSE s

SalesHistories ==
    {MakeSeries(n, gap, back, qpattern, bad, newest_first) :
        n \in SeriesLengths, gap \in {1, 2, 3}, back \in {3, 40},
        qpattern \in QuantityPatterns, bad \in {0, 1, MIN_DATA_POINTS},
        newest_first \in BOOLEAN}

InitValidate ==
    /\ MonitorInit
    /\ ThreadsIdle
    /\ calls_left = 0
    /\ clears_left = 0
    /\ pattern = 0
    /\ RequestIdle
    /\ BatchIdle
    /\ fn_args \in {[sales_data |-> s] : s \in SalesHistories}
    /\ fn_result = <<>>
    /\ fn_log = <<>>

\* validation_result = data_validator.validate_sales_data(request.sales_history)
ApplyValidate ==
    /\ fn_result = <<>>
    /\ fn_result' = <<ValidateSalesData(fn_args.sales_data, Today)>>
    /\ UNCHANGED <<mon_vars, since_clear, drv_vars, req_vars, bat_vars, fn_args, fn_log>>

NextValidate == ApplyValidate

SpecValidate == InitValidate /\ [][NextValidate]_vars

Validated == fn_result # <<>>
Series == fn_args.sales_data
Verdict == fn_result[1]
SeriesDates == {Series[i].date : i \in DOMAIN Series}
IsEmpty == Len(Series) = 0
TooFew == Len(Series) < 14
Unparseable == \E i \in DOMAIN Series : Series[i].date = BadDate
ShortSpan ==
    \A d1 \in SeriesDates, d2 \in SeriesDates : d1 - d2 < 14
MostlyZero ==
    2 * Cardinality({i \in DOMAIN Series : Series[i].quantity_sold = 0}) > Len(Series)

-----------------------------------------------------------------------------
(* generate_forecast: one request for one item, main.py:37-134 *)

\* the latest time the clock reaches
MaxNow == 2

\* what a request leaves alone: the driver threads, the batch, the clock and the request
handler_frame == <<drv_vars, bat_vars, fn_vars, now, request>>

\* get_duration_ms(): 0.0 unless both start_time and end_time are set
GetDurationMs(t) ==
    IF t.start_time # NoTime /\ t.end_time # NoTime
    THEN (t.end_time - t.start_time) * 1000
    ELSE 0

\* ForecastResponse(...): minimum_data_points_required defaults to 14
ForecastResponse(forecast, success, error_message, insufficient_data, warnings) ==
    [forecast |-> forecast, success |-> success, error_message |-> error_message,
     insufficient_data |-> insufficient_data, data_quality_warnings |-> warnings,
     minimum_data_points_required |-> 14]

\* ProcessedForecastResult(success, forecast, error_message)
ProcessedForecastResult(success, forecast, error_message) ==
    [success |-> success, forecast |-> forecast, error_message |-> error_message]

\* timer.record_metrics(...): the ForecastMetrics it builds
TimerMetrics(model_used, confidence_score, data_quality_score, success, error_message) ==
    Metrics(now, request.sku, request.user_id, model_used, GetDurationMs(timer),
            Len(request.sales_history), request.forecast_days, confidence_score,
            data_quality_score, success, error_message)

\* a response for a rejected history that does not carry the insufficient-data flag
InvalidResponseUnflagged(v) ==
    ForecastResponse(None, FALSE, v.error_message, FALSE, v.warnings)

\* lines 60-65
InvalidResponse(v) ==
    ForecastResponse(None, FALSE, v.error_message, v.insufficient_data, v.warnings)

\* a handler that goes on to forecast whatever the validator said
AfterValidationAlwaysForecast(v) == "arima"

\* if not validation_result.is_valid: ... return; else go on to forecast
AfterValidation(v) == IF v.is_valid THEN "arima" ELSE "record_invalid"

\* what ARIMAForecaster.fit_and_forecast may return for a valid history: a fitted
\* model, the moving-average fallback, a fitted model whose forecast is not a number
ArimaOutputs ==
    {ForecastResult(<<20, 40>>, None, "ARIMA(1,1,1)", "increasing", FALSE, 500, 0,
                    <<"order">>),
     ForecastResult(<<20, 20>>, None, "Moving-Average-Fallback", "stable", FALSE, 300, 0,
                    None),
     ForecastResult(<<NaN, NaN>>, None, "ARIMA(1,1,1)", "stable", FALSE, 500, 0,
                    <<"order">>)}

\* what ProphetForecaster.fit_and_forecast may return for a valid history: a fitted
\* model with and without seasonality, one forecasting 2.6 and 5.2 units, the ARIMA
\* fallback
ProphetOutputs ==
    {ForecastResult(<<60, 40>>, <<"intervals">>, "Prophet-Advanced", "decreasing", TRUE,
                    900, 0, <<"components">>),
     ForecastResult(<<26, 52>>, <<"intervals">>, "Prophet-Advanced", "increasing", TRUE,
                    900, 0, <<"components">>),
     ForecastResult(<<60, 40>>, <<"intervals">>, "Prophet-Advanced", "stable", FALSE,
                    500, 0, <<"components">>),
     ForecastResult(<<20, 20>>, None, "ARIMA-Fallback", "stable", FALSE, 300, 0, None)}

\* with ForecastTimer(request.sku, request.user_id) as timer: __init__ and __enter__
Enter ==
    /\ rpc = "start"
    /\ timer' = [start_time |-> now, end_time |-> NoTime]
    /\ rpc' = "validate"
    /\ UNCHANGED <<handler_frame, mon_vars, since_clear, validation_result,
                   arima_result, prophet_result, best_result, forecast_result,
                   response, exc, raised, steps, records_made, failure>>

\* line 47. A history whose dates carry a UTC offset passes the four checks and then
\* makes `datetime.now() - df['date'].max()` raise
Validate ==
    /\ rpc = "validate"
    /\ steps' = Append(steps, "validate")
    /\ LET v == ValidateSalesData(request.sales_history, Today)
       IN IF v.is_valid /\ request.dates_with_offset
          THEN /\ exc' = <<"Cannot subtract tz-naive and tz-aware datetime-like objects">>
               /\ failure' = exc'
               /\ rpc' = "except"
               /\ UNCHANGED validation_result
          ELSE /\ validation_result' = v
               /\ failure' = IF v.is_valid THEN failure ELSE v.error_message
               /\ rpc' = AfterValidation(v)
               /\ UNCHANGED exc
    /\ UNCHANGED <<handler_frame, mon_vars, since_clear, timer, arima_result,
                   prophet_result, best_result, forecast_result, response, raised,
                   records_made>>

\* lines 50-58
RecordInvalid ==
    /\ rpc = "record_invalid"
    /\ MonitorRecord(TimerMetrics("validation_failed", 0,
                                  validation_result.data_quality_score, FALSE,
                                  validation_result.error_message))
    /\ records_made' = records_made + 1
    /\ steps' = Append(steps, "record")
    /\ rpc' = "respond_invalid"
    /\ UNCHANGED <<handler_frame, timer, validation_result, arima_result,
                   prophet_result, best_result, forecast_result, response, exc, raised,
                   failure>>

\* lines 60-65: the response is built and returned, or building it raises
RespondInvalid ==
    /\ rpc = "respond_invalid"
    /\ \/ /\ response' = InvalidResponse(validation_result)
          /\ rpc' = "exit"
          /\ UNCHANGED <<exc, failure>>
       \/ /\ exc' = <<"out of memory">>
          /\ failure' = exc'
          /\ rpc' = "except"
          /\ UNCHANGED response
    /\ UNCHANGED <<handler_frame, mon_vars, since_clear, timer, validation_result,
                   arima_result, prophet_result, best_result, forecast_result, raised,
                   steps, records_made>>

\* forecast_processor.py:45
Arima ==
    /\ rpc = "arima"
    /\ \E r \in ArimaOutputs : arima_result' = r
    /\ steps' = Append(steps, "arima")
    /\ rpc' = "prophet"
    /\ UNCHANGED <<handler_frame, mon_vars, since_clear, timer, validation_result,
                   prophet_result, best_result, forecast_result, response, exc, raised,
                   records_made, failure>>

\* forecast_processor.py:46
Prophet ==
    /\ rpc = "prophet"
    /\ \E r \in ProphetOutputs : prophet_result' = r
    /\ steps' = Append(steps, "prophet")
    /\ rpc' = "select"
    /\ UNCHANGED <<handler_frame, mon_vars, since_clear, timer, validation_result,
                   arima_result, best_result, forecast_result, response, exc, raised,
                   records_made, failure>>

\* forecast_processor.py:49
Select ==
    /\ rpc = "select"
    /\ best_result' = SelectBestForecast(arima_result, prophet_result)
    /\ steps' = Append(steps, "select")
    /\ rpc' = "inventory"
    /\ UNCHANGED <<handler_frame, mon_vars, since_clear, timer, validation_result,
                   arima_result, prophet_result, forecast_result, response, exc,
                   raised, records_made, failure>>

\* forecast_processor.py:52-85: int(np.sum(...)) of a forecast that is not a number
\* raises, and the processor's own handler turns that into a failed result; otherwise
\* the demand and the reorder quantity are computed and the ItemForecast is built
Inventory ==
    /\ rpc = "inventory"
    /\ IF HasNaN(best_result.predictions)
       THEN /\ forecast_result' =
                   ProcessedForecastResult(FALSE, None,
                       <<"Forecast processing failed: ",
                         "cannot convert float NaN to integer">>)
            /\ failure' = forecast_result'.error_message
            /\ rpc' = "record_failed"
            /\ UNCHANGED steps
       ELSE /\ forecast_result' =
                   ProcessedForecastResult(TRUE,
                       ItemForecast(request.sku, request.current_stock, best_result,
                                    request.lead_time_days, request.forecast_days),
                       None)
            /\ steps' = Append(steps, "inventory")
            /\ rpc' = "record_success"
            /\ UNCHANGED failure
    /\ UNCHANGED <<handler_frame, mon_vars, since_clear, timer, validation_result,
                   arima_result, prophet_result, best_result, response, exc, raised,
                   records_made>>

\* lines 84-91
RecordSuccess ==
    /\ rpc = "record_success"
    /\ MonitorRecord(TimerMetrics(forecast_result.forecast.model_used,
                                  forecast_result.forecast.confidence_score,
                                  forecast_result.forecast.data_quality_score,
                                  TRUE, None))
    /\ records_made' = records_made + 1
    /\ steps' = Append(steps, "record")
    /\ rpc' = "respond_success"
    /\ UNCHANGED <<handler_frame, timer, validation_result, arima_result,
                   prophet_result, best_result, forecast_result, response, exc, raised,
                   failure>>

\* lines 93-97: the response is built and returned, or building it raises
RespondSuccess ==
    /\ rpc = "respond_success"
    /\ \/ /\ response' = ForecastResponse(forecast_result.forecast, TRUE, None, FALSE,
                                          validation_result.warnings)
          /\ rpc' = "exit"
          /\ UNCHANGED <<exc, failure>>
       \/ /\ exc' = <<"out of memory">>
          /\ failure' = exc'
          /\ rpc' = "except"
          /\ UNCHANGED response
    /\ UNCHANGED <<handler_frame, mon_vars, since_clear, timer, validation_result,
                   arima_result, prophet_result, best_result, forecast_result, raised,
                   steps, records_made>>

\* lines 100-108
RecordFailed ==
    /\ rpc = "record_failed"
    /\ MonitorRecord(TimerMetrics("forecast_failed", 0,
                                  validation_result.data_quality_score, FALSE,
                                  forecast_result.error_message))
    /\ records_made' = records_made + 1
    /\ steps' = Append(steps, "record")
    /\ rpc' = "respond_failed"
    /\ UNCHANGED <<handler_frame, timer, validation_result, arima_result,
                   prophet_result, best_result, forecast_result, response, exc, raised,
                   failure>>

\* lines 110-114: the response is built and returned, or building it raises
RespondFailed ==
    /\ rpc = "respond_failed"
    /\ \/ /\ response' = ForecastResponse(None, FALSE, forecast_result.error_message,
                                          FALSE, validation_result.warnings)
          /\ rpc' = "exit"
          /\ UNCHANGED <<exc, failure>>
       \/ /\ exc' = <<"out of memory">>
          /\ failure' = exc'
          /\ rpc' = "except"
          /\ UNCHANGED response
    /\ UNCHANGED <<handler_frame, mon_vars, since_clear, timer, validation_result,
                   arima_result, prophet_result, best_result, forecast_result, raised,
                   steps, records_made>>

\* error_msg = f"Internal server error: {str(e)}"
ErrorMsg(e) == <<"Internal server error: ">> \o e

\* lines 116-129: except Exception as e, whatever was done before the exception
Except ==
    /\ rpc = "except"
    /\ MonitorRecord(TimerMetrics("exception", 0, 0, FALSE, ErrorMsg(exc)))
    /\ records_made' = records_made + 1
    /\ steps' = Append(steps, "record")
    /\ rpc' = "respond_except"
    /\ UNCHANGED <<handler_frame, timer, validation_result, arima_result,
                   prophet_result, best_result, forecast_result, response, exc, raised,
                   failure>>

\* lines 131-134: the response is built and returned, or building it raises and the
\* exception leaves the handler
RespondExcept ==
    /\ rpc = "respond_except"
    /\ \/ /\ response' = ForecastResponse(None, FALSE, ErrorMsg(exc), FALSE, <<>>)
          /\ UNCHANGED <<raised, failure>>
       \/ /\ raised' = <<"out of memory">>
          /\ failure' = raised'
          /\ UNCHANGED response
    /\ rpc' = "exit"
    /\ UNCHANGED <<handler_frame, mon_vars, since_clear, timer, validation_result,
                   arima_result, prophet_result, best_result, forecast_result, exc,
                   steps, records_made>>

\* ForecastTimer.__exit__, on return and on raise: it sets end_time and records nothing
Exit ==
    /\ rpc = "exit"
    /\ timer' = [timer EXCEPT !.end_time = now]
    /\ rpc' = IF raised # None THEN "raised" ELSE "returned"
    /\ UNCHANGED <<handler_frame, mon_vars, since_clear, validation_result,
                   arima_result, prophet_result, best_result, forecast_result,
                   response, exc, raised, steps, records_made, failure>>

\* time passes while a request is handled
Tick ==
    /\ rpc \notin {"idle", "returned", "raised"}
    /\ now < MaxNow
    /\ now' = now + 1
    /\ UNCHANGED <<mon_vars, since_clear, drv_vars, bat_vars, fn_vars, request, rpc,
                   timer, validation_result, arima_result, prophet_result, best_result,
                   forecast_result, response, exc, raised, steps, records_made, failure>>

\* ForecastRequest(user_id, sku, sales_history, current_stock, lead_time_days,
\* forecast_days); dates_with_offset: the date strings carry a UTC offset
ForecastRequest(sku, sales_history, dates_with_offset, current_stock, lead_time_days) ==
    [user_id |-> "u1", sku |-> sku, sales_history |-> sales_history,
     dates_with_offset |-> dates_with_offset, current_stock |-> current_stock,
     lead_time_days |-> lead_time_days, forecast_days |-> 2]

\* histories of requests: none, too few points, 14 daily points, an unparseable date,
\* 15 daily points, 15 points without sales ending 40 days ago
RequestHistories ==
    {MakeSeries(0, 1, 3, "steady", 0, FALSE),
     MakeSeries(5, 1, 3, "steady", 0, FALSE),
     MakeSeries(MIN_DATA_POINTS, 1, 3, "steady", 0, FALSE),
     MakeSeries(MIN_DATA_POINTS, 2, 3, "steady", 2, FALSE),
     MakeSeries(MIN_DATA_POINTS + 1, 1, 3, "steady", 0, FALSE),
     MakeSeries(MIN_DATA_POINTS + 1, 2, 40, "zeros", 0, TRUE)}

Requests ==
    {ForecastRequest("SKU-1", h, o, stock, lead) :
        h \in RequestHistories, o \in BOOLEAN, stock \in {0, 50}, lead \in {1, 3}}

Init ==
    /\ MonitorInit
    /\ ThreadsIdle
    /\ calls_left = 0
    /\ clears_left = 0
    /\ pattern = 0
    /\ BatchIdle
    /\ FnIdle
    /\ now = 1
    /\ request \in Requests
    /\ rpc = "start"
    /\ timer = [start_time |-> NoTime, end_time |-> NoTime]
    /\ validation_result = None
    /\ arima_result = None
    /\ prophet_result = None
    /\ best_result = None
    /\ forecast_result = None
    /\ response = None
    /\ exc = None
    /\ raised = None
    /\ steps = <<>>
    /\ records_made = 0
    /\ failure = None

Next ==
    \/ Enter
    \/ Validate
    \/ RecordInvalid
    \/ RespondInvalid
    \/ Arima
    \/ Prophet
    \/ Select
    \/ Inventory
    \/ RecordSuccess
    \/ RespondSuccess
    \/ RecordFailed
    \/ RespondFailed
    \/ Except
    \/ RespondExcept
    \/ Exit
    \/ Tick

Spec == Init /\ [][Next]_vars

-----------------------------------------------------------------------------
(* Properties of one request *)

Finished == rpc \in {"returned", "raised"}

\* C1: a request that has finished has appended exactly one ForecastMetrics record to
\* the monitor, whichever way it left the handler, an exception raised after a record
\* was made included: never none, never two
C1_ExactlyOneRecord ==
    Finished => (records_made = 1 /\ Len(since_clear) = 1)

\* a request rejected by the validator has finished with two records in the monitor,
\* the second made by the exception handler
C1_TwoRecords ==
    /\ rpc = "returned"
    /\ records_made = 2
    /\ Len(since_clear) = 2
    /\ since_clear[1].model_used = "validation_failed"
    /\ since_clear[2].model_used = "exception"
    /\ since_clear[1].sku = since_clear[2].sku

\* the place of a step in the order validation, forecasting, ensemble selection,
\* inventory decisioning, metrics recording
Rank(step) ==
    CASE step = "validate" -> 1
      [] step \in {"arima", "prophet"} -> 2
      [] step = "select" -> 3
      [] step = "inventory" -> 4
      [] OTHER -> 5

StepsTaken == {steps[i] : i \in DOMAIN steps}

Rejected == validation_result # None /\ ~validation_result.is_valid

\* C5: the steps of a request run in the order validation, both forecasters, ensemble
\* selection, inventory decisioning, metrics recording, on the failure paths too; and
\* when the validator rejects the history no forecaster runs and no ItemForecast is built
C5_StepOrder ==
    /\ \A i \in DOMAIN steps : \A j \in DOMAIN steps :
           i < j => Rank(steps[i]) <= Rank(steps[j])
    /\ steps # <<>> => steps[1] = "validate"
    /\ "select" \in StepsTaken => {"arima", "prophet"} \subseteq StepsTaken
    /\ "inventory" \in StepsTaken => "select" \in StepsTaken
    /\ Finished => steps[Len(steps)] = "record"
    /\ Rejected =>
          /\ StepsTaken \subseteq {"validate", "record"}
          /\ arima_result = None
          /\ prophet_result = None
          /\ forecast_result = None
          /\ response # None => response.forecast = None

\* a request has run every step and returned a forecast
C5_Witness ==
    /\ rpc = "returned"
    /\ steps = <<"validate", "arima", "prophet", "select", "inventory", "record">>
    /\ response.success

InsufficientData == Rejected /\ validation_result.insufficient_data

-----------------------------------------------------------------------------
(* generate_batch_forecast: the items of a batch, one after the other, main.py:136-184 *)

\* the most items in a batch
MaxItems == 2

\* the SKU of the i-th item: the items of a batch have SKUs of their own
SkuAt(i) == ToString(i)

\* what the items of a batch may ask for: too few points, an unparseable date, a
\* history that passes, and a history that passes with dates carrying a UTC offset
ItemKinds ==
    {[sales_history |-> MakeSeries(5, 1, 3, "steady", 0, FALSE), dates_with_offset |-> FALSE],
     [sales_history |-> MakeSeries(MIN_DATA_POINTS, 2, 3, "steady", 2, FALSE),
      dates_with_offset |-> FALSE],
     [sales_history |-> MakeSeries(MIN_DATA_POINTS + 1, 2, 40, "zeros", 0, FALSE),
      dates_with_offset |-> FALSE],
     [sales_history |-> MakeSeries(MIN_DATA_POINTS + 1, 1, 3, "steady", 0, FALSE),
      dates_with_offset |-> TRUE]}

\* request.items
Batches ==
    UNION {{[i \in 1 .. n |->
                ForecastRequest(SkuAt(i), k[i].sales_history, k[i].dates_with_offset, 0, 1)] :
              k \in [1 .. n -> ItemKinds]} : n \in 1 .. MaxItems}

\* an entry of failed_items that does not carry the item's error
FailedEntryGeneric(sku, error) == [sku |-> sku, error |-> <<"Unknown error">>]

\* {"sku": item_request.sku, "error": ...}
FailedEntry(sku, error) == [sku |-> sku, error |-> error]

\* forecast_response.error_message or "Unknown error"
ErrorOrUnknown(error_message) ==
    IF error_message = None THEN <<"Unknown error">> ELSE error_message

\* for item_request in request.items: forecast_response = await generate_forecast(...)
BatchCall ==
    /\ bpc = "loop"
    /\ item_idx <= Len(items)
    /\ request' = items[item_idx]
    /\ rpc' = "start"
    /\ timer' = [start_time |-> NoTime, end_time |-> NoTime]
    /\ validation_result' = None
    /\ arima_result' = None
    /\ prophet_result' = None
    /\ best_result' = None
    /\ forecast_result' = None
    /\ response' = None
    /\ exc' = None
    /\ raised' = None
    /\ steps' = <<>>
    /\ records_made' = 0
    /\ failure' = None
    /\ bpc' = "await"
    /\ UNCHANGED <<mon_vars, since_clear, drv_vars, fn_vars, now, items, item_idx,
                   forecasts, insufficient_data_items, failed_items, all_warnings,
                   batch_response>>

\* lines 154-173: the response, or the exception, of the item's call is filed
BatchClassify ==
    /\ bpc = "await"
    /\ rpc \in {"returned", "raised"}
    /\ IF rpc = "raised"
       THEN /\ failed_items' = Append(failed_items, FailedEntry(request.sku, raised))
            /\ UNCHANGED <<forecasts, insufficient_data_items, all_warnings>>
       ELSE /\ IF response.success /\ response.forecast # None
               THEN /\ forecasts' = Append(forecasts, response.forecast)
                    /\ UNCHANGED <<insufficient_data_items, failed_items>>
               ELSE IF response.insufficient_data
               THEN /\ insufficient_data_items' =
                           Append(insufficient_data_items, request.sku)
                    /\ UNCHANGED <<forecasts, failed_items>>
               ELSE /\ failed_items' =
                           Append(failed_items,
                                  FailedEntry(request.sku,
                                              ErrorOrUnknown(response.error_message)))
                    /\ UNCHANGED <<forecasts, insufficient_data_items>>
            /\ all_warnings' = all_warnings \o response.data_quality_warnings
    /\ item_idx' = item_idx + 1
    /\ bpc' = "loop"
    /\ UNCHANGED <<mon_vars, since_clear, drv_vars, fn_vars, req_vars, items,
                   batch_response>>

\* lines 175-180; list(set(all_warnings)) keeps each warning once, in no known order
BatchRespond ==
    /\ bpc = "loop"
    /\ item_idx > Len(items)
    /\ batch_response' =
           [forecasts |-> forecasts,
            insufficient_data_items |-> insufficient_data_items,
            failed_items |-> failed_items,
            data_quality_warnings |-> {all_warnings[i] : i \in DOMAIN all_warnings}]
    /\ bpc' = "done"
    /\ UNCHANGED <<mon_vars, since_clear, drv_vars, fn_vars, req_vars, items, item_idx,
                   forecasts, insufficient_data_items, failed_items, all_warnings>>

InitBatch ==
    /\ MonitorInit
    /\ ThreadsIdle
    /\ calls_left = 0
    /\ clears_left = 0
    /\ pattern = 0
    /\ RequestIdle
    /\ FnIdle
    /\ items \in Batches
    /\ item_idx = 1
    /\ bpc = "loop"
    /\ forecasts = <<>>
    /\ insufficient_data_items = <<>>
    /\ failed_items = <<>>
    /\ all_warnings = <<>>
    /\ batch_response = None

NextBatch ==
    \/ BatchCall
    \/ Enter
    \/ Validate
    \/ RecordInvalid
    \/ RespondInvalid
    \/ Arima
    \/ Prophet
    \/ Select
    \/ Inventory
    \/ RecordSuccess
    \/ RespondSuccess
    \/ RecordFailed
    \/ RespondFailed
    \/ Except
    \/ RespondExcept
    \/ Exit
    \/ BatchClassify
    \/ BatchRespond

SpecBatch == InitBatch /\ [][NextBatch]_vars

-----------------------------------------------------------------------------
(* Properties of a batch *)

InForecasts(sku) == \E k \in DOMAIN forecasts : forecasts[k].sku = sku
InInsufficient(sku) == \E k \in DOMAIN insufficient_data_items : insufficient_data_items[k] = sku
InFailed(sku) == \E k \in DOMAIN failed_items : failed_items[k].sku = sku

\* the number of result lists the SKU is in
ListsHolding(sku) ==
    (IF InForecasts(sku) THEN 1 ELSE 0) + (IF InInsufficient(sku) THEN 1 ELSE 0)
    + (IF InFailed(sku) THEN 1 ELSE 0)

\* t is the end of s
EndsWith(s, t) ==
    Len(t) <= Len(s) /\ SubSeq(s, Len(s) - Len(t) + 1, Len(s)) = t

Filed == bpc \in {"loop", "done"}

-----------------------------------------------------------------------------
(* The ensemble built by _select_best_forecast *)

\* neither candidate is returned as it is
NeitherOutright == BothNonZero /\ ~BDecisive /\ ~ADecisive

\* C11: when both confidences are non-zero and neither decisive rule fires, which
\* includes B's confidence exceeding 1.1 times A's without seasonality, the selector
\* returns a new result: its predictions are the elementwise average of the two
\* prediction sequences, its confidence is the arithmetic mean of the two confidences,
\* so within [0,1] and between them, and its trend and seasonality are both B's when
\* B's confidence is greater or equal and both A's otherwise
C11_Ensemble ==
    (Selected /\ NeitherOutright) =>
        /\ Chosen # A
        /\ Chosen # B
        /\ DOMAIN Chosen.predictions = DOMAIN A.predictions
        /\ \A i \in DOMAIN Chosen.predictions :
               2 * Chosen.predictions[i] = A.predictions[i] + B.predictions[i]
        /\ 2 * Chosen.confidence_score = A.confidence_score + B.confidence_score
        /\ Chosen.confidence_score >= 0
        /\ Chosen.confidence_score <= 1000
        /\ Chosen.confidence_score >= Min(A.confidence_score, B.confidence_score)
        /\ Chosen.confidence_score <= Max(A.confidence_score, B.confidence_score)
        /\ B.confidence_score >= A.confidence_score =>
               (Chosen.trend = B.trend
                /\ Chosen.seasonality_detected = B.seasonality_detected)
        /\ B.confidence_score < A.confidence_score =>
               (Chosen.trend = A.trend
                /\ Chosen.seasonality_detected = A.seasonality_detected)

\* B at 0.9 without seasonality against A at 0.4: an ensemble at 0.65 with B's trend,
\* which is not A's
C11_Witness ==
    /\ Selected
    /\ A.confidence_score = 400
    /\ B.confidence_score = 900
    /\ ~B.seasonality_detected
    /\ A.seasonality_detected
    /\ Chosen.confidence_score = 650
    /\ Chosen.predictions = <<40, 40>>
    /\ Chosen.trend = B.trend
    /\ Chosen.trend # A.trend
    /\ ~Chosen.seasonality_detected

\* "Ensemble-" + a + "-" + b, for the model names the candidates carry
EnsembleLabel(a, b) ==
    CASE a = "ARIMA(1,1,1)" /\ b = "Prophet-Advanced" -> "Ensemble-ARIMA(1,1,1)-Prophet-Advanced"
      [] a = "ARIMA(1,1,1)" /\ b = "ARIMA-Fallback" -> "Ensemble-ARIMA(1,1,1)-ARIMA-Fallback"
      [] a = "Moving-Average-Fallback" /\ b = "Prophet-Advanced" ->
             "Ensemble-Moving-Average-Fallback-Prophet-Advanced"
      [] a = "Moving-Average-Fallback" /\ b = "ARIMA-Fallback" ->
             "Ensemble-Moving-Average-Fallback-ARIMA-Fallback"

\* C12: the model name of an ensemble is "Ensemble-<A>-<B>" with <A> and <B> the model
\* names of the two candidates combined
C12_EnsembleName ==
    (Selected /\ NeitherOutright) =>
        Chosen.model_name = EnsembleLabel(A.model_name, B.model_name)

\* "ARIMA(1,1,1)" and "ARIMA-Fallback" were combined and the result is labelled
\* "Ensemble-ARIMA-Prophet"
C12_FixedLabel ==
    /\ Selected
    /\ NeitherOutright
    /\ A.model_name = "ARIMA(1,1,1)"
    /\ B.model_name = "ARIMA-Fallback"
    /\ Chosen.model_name = "Ensemble-ARIMA-Prophet"

-----------------------------------------------------------------------------
(* _select_best_forecast called again and again *)

\* the most calls made in a row
MaxSelectCalls == 3

\* a call that adds Prophet's predictions into ARIMA's array when it builds an ensemble
SelectCallInPlace(arima, prophet) ==
    LET best == SelectBestForecast(arima, prophet)
    IN [result |-> best,
        arima_result |->
            IF best # arima /\ best # prophet
            THEN [arima EXCEPT !.predictions = best.predictions]
            ELSE arima,
        prophet_result |-> prophet]

\* a call of _select_best_forecast: what it returns, and the two objects it was given
\* as the call leaves them. The method reads its two parameters only, builds the
\* ensemble's array with `+` and `/`, and assigns to no attribute
SelectCall(arima, prophet) ==
    [result |-> SelectBestForecast(arima, prophet),
     arima_result |-> arima,
     prophet_result |-> prophet]

\* results a caller holds and may pass
HeldArima ==
    {ForecastResult(<<20, 40>>, None, "ARIMA(1,1,1)", "increasing", FALSE, 500, 0,
                    <<"order">>),
     ForecastResult(<<20, 20>>, None, "ARIMA(1,1,1)", "stable", FALSE, 0, 0, None)}

HeldProphet ==
    {ForecastResult(<<60, 40>>, <<"intervals">>, "Prophet-Advanced", "decreasing", FALSE,
                    500, 0, <<"components">>),
     ForecastResult(<<60, 40>>, <<"intervals">>, "Prophet-Advanced", "stable", TRUE,
                    900, 0, <<"components">>),
     ForecastResult(<<20, 20>>, None, "ARIMA-Fallback", "stable", FALSE, 0, 0, None)}

\* the objects passed to earlier calls, as those calls left them
PassedArima == {fn_log[i].arima_result : i \in DOMAIN fn_log}
PassedProphet == {fn_log[i].prophet_result : i \in DOMAIN fn_log}

InitSelectCalls ==
    /\ MonitorInit
    /\ ThreadsIdle
    /\ calls_left = 0
    /\ clears_left = 0
    /\ pattern = 0
    /\ RequestIdle
    /\ BatchIdle
    /\ FnIdle

\* one more call, with results the caller holds or has passed before
CallSelect ==
    /\ Len(fn_log) < MaxSelectCalls
    /\ \E a \in HeldArima \cup PassedArima, p \in HeldProphet \cup PassedProphet :
          LET call == SelectCall(a, p)
          IN fn_log' = Append(fn_log,
                              [given_arima |-> a, given_prophet |-> p,
                               arima_result |-> call.arima_result,
                               prophet_result |-> call.prophet_result,
                               result |-> call.result])
    /\ UNCHANGED <<mon_vars, since_clear, drv_vars, req_vars, bat_vars, fn_args, fn_result>>

NextSelectCalls == CallSelect

SpecSelectCalls == InitSelectCalls /\ [][NextSelectCalls]_vars

SameArguments(i, j) ==
    /\ fn_log[i].given_arima = fn_log[j].given_arima
    /\ fn_log[i].given_prophet = fn_log[j].given_prophet

-----------------------------------------------------------------------------
(* The inventory computations applied to arguments *)

\* the largest stock, forecast demand, lead-time demand and forecast length tried,
\* next to the stock of 200, demand of 70 and lead-time demand of 20
MaxStock == 12
MaxDemand == 12
MaxLeadDemand == 3
MaxHorizon == 3

\* predictions in tenths of a unit: 0, 1.0 and 2.6 a day
PredictionValues == {0, 10, 26}

PredictionSeqs ==
    UNION {[1 .. n -> PredictionValues] : n \in 0 .. MaxHorizon}

ReorderArgs ==
    {[op |-> "reorder", current_stock |-> s, forecast_demand |-> f,
      lead_time_demand |-> l] :
        s \in (0 .. MaxStock) \cup {200}, f \in (0 .. MaxDemand) \cup {70},
        l \in (0 .. MaxLeadDemand) \cup {20}}

LeadTimeArgs ==
    {[op |-> "lead_time", predictions |-> p, lead_time_days |-> l,
      forecast_days |-> h] :
        p \in PredictionSeqs \ {<<>>}, l \in -1 .. MaxHorizon + 1, h \in 1 .. MaxHorizon}

StockoutArgs ==
    {[op |-> "stockout", current_stock |-> s, predictions |-> p] :
        s \in 0 .. MaxStock, p \in PredictionSeqs}

InitInventory ==
    /\ MonitorInit
    /\ ThreadsIdle
    /\ calls_left = 0
    /\ clears_left = 0
    /\ pattern = 0
    /\ RequestIdle
    /\ BatchIdle
    /\ fn_args \in ReorderArgs \cup LeadTimeArgs \cup StockoutArgs
    /\ fn_result = <<>>
    /\ fn_log = <<>>

\* recommended_order = self._calculate_reorder_quantity(...)
ApplyReorder ==
    /\ fn_result = <<>>
    /\ fn_args.op = "reorder"
    /\ fn_result' = <<CalculateReorderQuantity(fn_args.current_stock,
                                               fn_args.forecast_demand,
                                               fn_args.lead_time_demand)>>
    /\ UNCHANGED <<mon_vars, since_clear, drv_vars, req_vars, bat_vars, fn_args, fn_log>>

\* lead_time_demand = self._calculate_lead_time_demand(...)
ApplyLeadTime ==
    /\ fn_result = <<>>
    /\ fn_args.op = "lead_time"
    /\ fn_result' = <<CalculateLeadTimeDemand(fn_args.predictions,
                                              fn_args.lead_time_days,
                                              fn_args.forecast_days)>>
    /\ UNCHANGED <<mon_vars, since_clear, drv_vars, req_vars, bat_vars, fn_args, fn_log>>

\* self._calculate_stockout_risk(current_stock, predictions)
ApplyStockout ==
    /\ fn_result = <<>>
    /\ fn_args.op = "stockout"
    /\ fn_result' = <<CalculateStockoutRisk(fn_args.current_stock, fn_args.predictions)>>
    /\ UNCHANGED <<mon_vars, since_clear, drv_vars, req_vars, bat_vars, fn_args, fn_log>>

NextInventory ==
    \/ ApplyReorder
    \/ ApplyLeadTime
    \/ ApplyStockout

SpecInventory == InitInventory /\ [][NextInventory]_vars

Reordered == fn_result # <<>> /\ fn_args.op = "reorder"
ReorderQuantity == fn_result[1]

\* round(0.2 x f) and round(0.1 x f), to the nearest unit (a half goes up)
RoundFifth(f) == (2 * f + 5) \div 10
RoundTenth(f) == (f + 5) \div 10

\* C14: for non-negative stock, forecast demand and lead-time demand the reorder
\* quantity is never negative, and it is 0 whenever the stock is at least forecast
\* demand + lead-time demand + round(0.2 x forecast demand); stock 200, demand 70 and
\* lead-time demand 20 give safety stock 14, total demand 104 and quantity 0
C14_ReorderNonNegative ==
    Reordered =>
        /\ ReorderQuantity >= 0
        /\ fn_args.current_stock >= fn_args.forecast_demand + fn_args.lead_time_demand
                                    + RoundFifth(fn_args.forecast_demand)
              => ReorderQuantity = 0
        /\ (fn_args.current_stock = 200 /\ fn_args.forecast_demand = 70
            /\ fn_args.lead_time_demand = 20) =>
              /\ SafetyStock(70) = 14
              /\ TotalDemand(70, 20) = 104
              /\ ReorderQuantity = 0

\* the quantity for stock 200, demand 70, lead-time demand 20 has been computed
C14_Witness ==
    /\ Reordered
    /\ fn_args.current_stock = 200
    /\ fn_args.forecast_demand = 70
    /\ fn_args.lead_time_demand = 20
    /\ ReorderQuantity = 0

\* the reorder quantity with safety stock and minimum order rounded to the nearest unit
ReferenceReorder(current_stock, forecast_demand, lead_time_demand) ==
    LET total == forecast_demand + lead_time_demand + RoundFifth(forecast_demand)
    IN IF current_stock >= total THEN 0
       ELSE Max(total - current_stock, Max(1, RoundTenth(forecast_demand)))

\* C15: for every non-negative input the reorder quantity equals the reference
\* formula, in which the safety stock is 0.2 x forecast demand and the minimum order
\* 0.1 x forecast demand, both rounded to the nearest unit and not truncated
C15_ReorderReference ==
    Reordered =>
        ReorderQuantity = ReferenceReorder(fn_args.current_stock,
                                           fn_args.forecast_demand,
                                           fn_args.lead_time_demand)

\* without stock, a forecast demand of 3 gives 3 where the reference formula gives 4
C15_Truncated ==
    /\ Reordered
    /\ fn_args.current_stock = 0
    /\ fn_args.forecast_demand = 3
    /\ fn_args.lead_time_demand = 0
    /\ ReorderQuantity = 3
    /\ ReferenceReorder(0, 3, 0) = 4


LeadTimeComputed == fn_result # <<>> /\ fn_args.op = "lead_time"
LeadTimeDemand == fn_result[1]

\* the sum of the first k predictions, in tenths of a unit
SumOfFirst(predictions, k) ==
    SumSeq(SubSeq(predictions, 1, Min(k, Len(predictions))))

\* r is x / d rounded to the nearest integer, for d > 0: |r - x / d| <= 1/2
NearestTo(r, x, d) == 2 * Abs(r * d - x) <= d

\* r is x / d brought to an integer by rounding either way: |r - x / d| < 1
IntegerOf(r, x, d) == Abs(r * d - x) < d

\* C16: the lead-time demand is 0 whenever the lead time is 0 days or less, whatever
\* the predictions and the horizon; it is the sum of the first lead-time-days
\* predictions when the lead time is positive and within the horizon; and it is the
\* mean prediction times the lead time, rounded to the nearest unit, when the lead
\* time is longer than the horizon
C16_LeadTimeDemand ==
    LeadTimeComputed =>
        /\ fn_args.lead_time_days <= 0 => LeadTimeDemand = 0
        /\ (0 < fn_args.lead_time_days
            /\ fn_args.lead_time_days <= fn_args.forecast_days) =>
               IntegerOf(LeadTimeDemand,
                         SumOfFirst(fn_args.predictions, fn_args.lead_time_days), 10)
        /\ fn_args.lead_time_days > fn_args.forecast_days =>
               NearestTo(LeadTimeDemand,
                         SumSeq(fn_args.predictions) * fn_args.lead_time_days,
                         10 * Len(fn_args.predictions))

\* two days at 2.6 a day and a lead time of 3 days: 7.8 units, returned as 7
C16_Truncated ==
    /\ LeadTimeComputed
    /\ fn_args.predictions = <<26, 26>>
    /\ fn_args.forecast_days = 2
    /\ fn_args.lead_time_days = 3
    /\ LeadTimeDemand = 7

RiskComputed == fn_result # <<>> /\ fn_args.op = "stockout"
Risk == fn_result[1]

\* the days on which the demand summed from day 1 is more than the stock
DaysShort ==
    {d \in 1 .. Len(fn_args.predictions) :
        SumSeq(SubSeq(fn_args.predictions, 1, d)) > 10 * fn_args.current_stock}

\* C19: the stockout day is the first day, counted from 1, on which the running sum
\* of the predictions is strictly more than the stock; the risk flag is true exactly
\* when there is such a day; the days of stock are that day minus 1, or the number of
\* predictions when there is none, and so lie between 0 and the number of predictions
C19_StockoutRisk ==
    RiskComputed =>
        /\ Risk.stockout_risk <=> DaysShort # {}
        /\ DaysShort # {} =>
              /\ Risk.stockout_day \in DaysShort
              /\ \A d \in DaysShort : Risk.stockout_day <= d
              /\ Risk.days_of_stock = Risk.stockout_day - 1
        /\ DaysShort = {} =>
              /\ Risk.stockout_day = NoDay
              /\ Risk.days_of_stock = Len(fn_args.predictions)
        /\ Risk.days_of_stock >= 0
        /\ Risk.days_of_stock <= Len(fn_args.predictions)

\* a stock of 2 against 1.0 a day twice and then 2.6: the demand equals the stock on
\* day 2 and exceeds it on day 3
C19_Witness ==
    /\ RiskComputed
    /\ fn_args.current_stock = 2
    /\ fn_args.predictions = <<10, 10, 26>>
    /\ Risk.stockout_risk
    /\ Risk.stockout_day = 3
    /\ Risk.days_of_stock = 2

-----------------------------------------------------------------------------
(* The ItemForecast of a successful request *)

Succeeded == response # None /\ response.success
Item == response.forecast

\* C17: the ItemForecast of a request has forecast_7_day equal to the sum of the
\* selected result's predictions rounded to the nearest unit, lead_time_factored equal
\* to the request's lead time, confidence, trend, seasonality and model name copied
\* from the selected result, and recommended_order equal to the reorder quantity for
\* the stock, forecast_7_day and the lead-time demand, which is never negative
C17_ItemForecast ==
    Succeeded =>
        /\ NearestTo(Item.forecast_7_day, SumSeq(best_result.predictions), 10)
        /\ Item.lead_time_factored = request.lead_time_days
        /\ Item.confidence_score = best_result.confidence_score
        /\ Item.trend = best_result.trend
        /\ Item.seasonality_detected = best_result.seasonality_detected
        /\ Item.model_used = best_result.model_name
        /\ Item.sku = request.sku
        /\ Item.current_stock = request.current_stock
        /\ Item.recommended_order =
               CalculateReorderQuantity(
                   request.current_stock, Item.forecast_7_day,
                   CalculateLeadTimeDemand(best_result.predictions,
                                           request.lead_time_days, request.forecast_days))
        /\ Item.recommended_order >= 0

\* predictions of 2.6 and 5.2 units, 7.8 in all, came back as a forecast of 7
C17_Truncated ==
    /\ Succeeded
    /\ best_result.predictions = <<26, 52>>
    /\ Item.forecast_7_day = 7

\* the success record of the request
SuccessRecords == {i \in DOMAIN since_clear : since_clear[i].success}

\* C18: the data quality score of the ItemForecast of a successful request, and of the
\* request's success record, is the score the validator computed for the request's
\* history
C18_QualityScoreCarried ==
    Succeeded =>
        /\ Item.data_quality_score = validation_result.data_quality_score
        /\ \A i \in SuccessRecords :
               since_clear[i].data_quality_score = validation_result.data_quality_score

\* a history the validator scored otherwise came back with a score of 0.8, in the
\* forecast and in the record
C18_AlwaysEightTenths ==
    /\ Succeeded
    /\ validation_result.data_quality_score # 800
    /\ Item.data_quality_score = 800
    /\ SuccessRecords # {}
    /\ \A i \in SuccessRecords : since_clear[i].data_quality_score = 800

-----------------------------------------------------------------------------
(* The quality score of a history that passes validation *)

\* C20: for every history that passes validation, with at least 14 points spanning at
\* least 14 days, the quality score lies in [0,1], whatever penalties (frequency,
\* dispersion, zero sales, outliers, staleness) and bonuses (trend consistency,
\* seasonality, recency) apply
C20_QualityScoreInRange ==
    (Validated /\ Verdict.is_valid) =>
        /\ Len(Series) >= 14
        /\ \E d1 \in SeriesDates, d2 \in SeriesDates : d1 - d2 >= 14
        /\ Verdict.data_quality_score >= 0
        /\ Verdict.data_quality_score <= 1000

PenaltiesApplied ==
    LET df == SortByDate(Series)
    IN /\ AvgGapOver2(df)
       /\ CvOver(Quantities(df), 2)
       /\ ZeroRatioOver50(Quantities(df))
       /\ OutlierImpact(Quantities(df)) > 0
       /\ Today - SeqMax(Dates(df)) > 30

\* a history that draws the frequency, dispersion, zero-sales, outlier and staleness
\* penalties together scores under one half and above 0
C20_Witness ==
    /\ Validated
    /\ Verdict.is_valid
    /\ PenaltiesApplied
    /\ Verdict.data_quality_score < 500
    /\ Verdict.data_quality_score > 0

\* a recent, regular history whose bonuses sum to more than 1 scores exactly 1
C20_Clamped ==
    /\ Validated
    /\ Verdict.is_valid
    /\ RawQualityScore(SortByDate(Series), Today) > 1000
    /\ Verdict.data_quality_score = 1000


(***************************************************************************)
(* The quality score of two histories that differ in their days without    *)
(* sales                                                                   *)
(***************************************************************************)
\* the sales of the seven days of a week, for weeks without a sale, with steady
\* sales, with two or three days without sales, and with a day of twenty units
WeekPatterns ==
    {<<0, 0, 0, 0, 0, 0, 0>>, <<2, 2, 2, 2, 2, 2, 2>>,
     <<2, 0, 2, 0, 2, 2, 20>>, <<0, 2, 0, 2, 2, 2, 20>>, <<2, 0, 0, 0, 2, 0, 20>>,
     <<0, 2, 2, 20, 20, 20, 20>>, <<0, 0, 0, 2, 2, 2, 2>>,
     <<0, 2, 20, 20, 2, 20, 20>>, <<0, 0, 2, 2, 2, 2, 2>>}

\* a daily history of MIN_DATA_POINTS + 1 points, ending `back` days ago, that repeats
\* the week `week`
WeeklySeries(week, back) ==
    [i \in 1 .. MIN_DATA_POINTS + 1 |->
        [date |-> Today - back - (MIN_DATA_POINTS + 1 - i),
         quantity_sold |-> week[((i - 1) % 7) + 1]]]

WeeklyHistories == {WeeklySeries(week, back) : week \in WeekPatterns, back \in {3, 20, 40}}

InitScores ==
    /\ MonitorInit
    /\ ThreadsIdle
    /\ calls_left = 0
    /\ clears_left = 0
    /\ pattern = 0
    /\ RequestIdle
    /\ BatchIdle
    /\ fn_args \in WeeklyHistories \X WeeklyHistories
    /\ fn_result = <<>>
    /\ fn_log = <<>>

\* validation_result = data_validator.validate_sales_data(sales_history), for the
\* first history and then for the second
ApplyScore ==
    /\ Len(fn_result) < Len(fn_args)
    /\ fn_result' = Append(fn_result, ValidateSalesData(fn_args[Len(fn_result) + 1], Today))
    /\ UNCHANGED <<mon_vars, since_clear, drv_vars, req_vars, bat_vars, fn_args, fn_log>>

NextScores == ApplyScore

SpecScores == InitScores /\ [][NextScores]_vars

BothScored == Len(fn_result) = 2
Score(i) == fn_result[i].data_quality_score

\* the band of the zero-quantity ratio of history i: 0 for at most 0.3, 1 for
\* (0.3, 0.5], 2 for above 0.5
ZeroBand(i) ==
    LET q == Quantities(fn_args[i])
    IN IF 2 * ZeroCount(q) > Len(q) THEN 2 ELSE IF 10 * ZeroCount(q) > 3 * Len(q) THEN 1 ELSE 0

\* every adjustment of the score of history i but the zero-sales one, each on its own
OtherAdjustments(i) ==
    LET df == fn_args[i]
        q == Quantities(df)
        days_since_last == Today - SeqMax(Dates(df))
    IN <<AvgGapOver2(df), GapStdOver3(df), CvOver(q, 2), CvOver(q, 1),
         TrendConsistency(q), SeasonalityStrength(q), OutlierImpact(q),
         days_since_last <= 7, days_since_last > 30>>

\* the sum of those adjustments, the zero-sales step left out
OtherSum(i) ==
    LET df == fn_args[i]
    IN RawQualityScore(df, Today) + ZeroPenalty(Quantities(df))

\* the two histories differ in the band of the zero ratio and in nothing else the
\* score looks at; the first is in band `lo` and the second in band `hi`
SameButZeros(lo, hi) ==
    /\ BothScored
    /\ fn_result[1].is_valid
    /\ fn_result[2].is_valid
    /\ OtherAdjustments(1) = OtherAdjustments(2)
    /\ ZeroBand(1) = lo
    /\ ZeroBand(2) = hi

\* C21 (as stated): with every other adjustment the same, the returned score of a
\* history with a zero ratio in (0.3, 0.5] is strictly below that of one with a ratio
\* of at most 0.3, and the score of one above 0.5 is strictly below that of one in
\* (0.3, 0.5]
C21_ZeroInflationStrict ==
    /\ SameButZeros(0, 1) => Score(2) < Score(1)
    /\ SameButZeros(1, 2) => Score(2) < Score(1)

\* C21 (amended): the returned score never rises from one band to the next; it falls
\* strictly from (0.3, 0.5] to above 0.5, by 0.10 or by what the clamp at 1 leaves of
\* it; it falls strictly from at most 0.3 to (0.3, 0.5] exactly when the other
\* adjustments sum to less than 1.15, and both scores are 1 otherwise
C21_ZeroInflation ==
    /\ SameButZeros(0, 1) =>
          /\ Score(2) <= Score(1)
          /\ (Score(2) < Score(1)) <=> (OtherSum(1) < 1150)
          /\ OtherSum(1) >= 1150 => Score(1) = 1000 /\ Score(2) = 1000
          /\ OtherSum(1) <= 1000 => Score(1) - Score(2) = 150
    /\ SameButZeros(1, 2) =>
          /\ Score(2) < Score(1)
          /\ Score(1) - Score(2) <= 100
          /\ OtherSum(1) <= 1150 => Score(1) - Score(2) = 100

\* two histories alike but for the zero band, with bonuses of 0.15 or more: both score 1
C21_Saturated ==
    /\ SameButZeros(0, 1)
    /\ OtherSum(1) >= 1150
    /\ Score(1) = 1000
    /\ Score(2) = 1000

\* two histories alike but for the zero band whose scores differ by the 0.15 step
C21_Witness ==
    /\ SameButZeros(0, 1)
    /\ Score(1) - Score(2) = 150


(***************************************************************************)
(* DataValidator.detect_data_anomalies (services/data_validator.py:297-358) *)
(* applied to a frame of [date, quantity] rows, dates ascending            *)
(***************************************************************************)
\* the rows of pd.Series(q).rolling(window=7, min_periods=3) at row i: the row itself
\* and the up to six rows before it
RollingWindow(q, i) == SubSeq(q, Max(1, i - 6), i)

\* rolling mean and std are not NaN at row i, and std > 0
RollingDefined(q, i) ==
    /\ Len(RollingWindow(q, i)) >= 3
    /\ VarTimesN2(RollingWindow(q, i)) > 0

\* qty > mean + 3 * std, for the sample standard deviation (ddof = 1) of the k rows
\* of the window: k * qty > sum and (k - 1) * (k * qty - sum)^2 > 9 * k * (k * sumsq - sum^2)
SpikeAt(q, i) ==
    LET w == RollingWindow(q, i)
        k == Len(w)
        d == k * q[i] - SumSeq(w)
    IN RollingDefined(q, i) /\ d > 0 /\ (k - 1) * d * d > 9 * k * VarTimesN2(w)

\* qty < max(0, mean - 3 * std) and mean > std
DropAt(q, i) ==
    LET w == RollingWindow(q, i)
        k == Len(w)
        d == SumSeq(w) - k * q[i]
    IN /\ RollingDefined(q, i)
       /\ ~SpikeAt(q, i)
       /\ q[i] < 0 \/ (d > 0 /\ (k - 1) * d * d > 9 * k * VarTimesN2(w))
       /\ SumSeq(w) > 0
       /\ (k - 1) * SumSeq(w) * SumSeq(w) > k * VarTimesN2(w)

\* pd.Series(q).autocorr(lag=7) is a number (neither side constant)
AutocorrDefined(q) ==
    /\ Len(q) >= 9
    /\ VarTimesN2(SubSeq(q, 1, Len(q) - 7)) > 0
    /\ VarTimesN2(SubSeq(q, 8, Len(q))) > 0

Anomalies(spikes, drops, missing, irregular, issues) ==
    [sudden_spikes |-> spikes, sudden_drops |-> drops, missing_periods |-> missing,
     irregular_patterns |-> irregular, data_quality_issues |-> issues]

\* the entry appended when the analysis raises
AnalysisError == <<[type |-> "analysis_error"]>>

\* detect_data_anomalies.  dates = df['date'].values is an array of numpy datetime64,
\* which has no strftime: building the entry of a flagged row or of a gap raises
\* AttributeError before anything is appended, and the except clause files an
\* analysis_error and returns the lists as they are
DetectDataAnomalies(df) ==
    LET q == [i \in DOMAIN df |-> df[i].quantity]
        flagged == {i \in DOMAIN q : SpikeAt(q, i) \/ DropAt(q, i)}
        gaps == {i \in 1 .. Len(df) - 1 : df[i + 1].date - df[i].date > 3}
        weak == Len(q) >= 14 /\ AutocorrDefined(q) /\ AutocorrAbs(q) < 100
    IN IF flagged # {} \/ gaps # {}
       THEN Anomalies(<<>>, <<>>, <<>>, <<>>, AnalysisError)
       ELSE Anomalies(<<>>, <<>>, <<>>,
                      IF weak THEN <<[type |-> "weak_weekly_pattern"]>> ELSE <<>>, <<>>)

\* the quantities of test_anomaly_detection
ScenarioE == <<5, 6, 4, 5, 7, 25, 6, 5, 4, 0, 0, 0, 6, 5, 4, 30, 5, 6, 4, 5>>

\* small steady sales with one day of h units
SpikeSeries(p, h) == [i \in DOMAIN ScenarioE |-> IF i = p THEN h ELSE 5 + (i % 3)]

AnomalyQuantities ==
    {ScenarioE} \cup {SpikeSeries(p, h) : p \in DOMAIN ScenarioE, h \in {0, 25, 30, 60}}

\* the frame of the quantities q on consecutive days, with `skip` days more between
\* the tenth and the eleventh row
AnomalyFrame(q, skip) ==
    [i \in DOMAIN q |-> [date |-> i + (IF i > 10 THEN skip ELSE 0), quantity |-> q[i]]]

AnomalyFrames == {AnomalyFrame(q, skip) : q \in AnomalyQuantities, skip \in {0, 4}}

InitAnomalies ==
    /\ MonitorInit
    /\ ThreadsIdle
    /\ calls_left = 0
    /\ clears_left = 0
    /\ pattern = 0
    /\ RequestIdle
    /\ BatchIdle
    /\ fn_args \in {[df |-> f] : f \in AnomalyFrames}
    /\ fn_result = <<>>
    /\ fn_log = <<>>

\* anomalies = validator.detect_data_anomalies(df)
ApplyDetect ==
    /\ fn_result = <<>>
    /\ fn_result' = <<DetectDataAnomalies(fn_args.df)>>
    /\ UNCHANGED <<mon_vars, since_clear, drv_vars, req_vars, bat_vars, fn_args, fn_log>>

NextAnomalies == ApplyDetect

SpecAnomalies == InitAnomalies /\ [][NextAnomalies]_vars

Detected == fn_result # <<>>
Report == fn_result[1]
FrameQuantities == [i \in DOMAIN fn_args.df |-> fn_args.df[i].quantity]
IsScenarioE == FrameQuantities = ScenarioE /\ fn_args.df = AnomalyFrame(ScenarioE, 0)

\* the mean and sample deviation of the seven days before row i, the row left out:
\* q[i] > mean + 3 * std
AboveEarlierDays(q, i) ==
    LET w == SubSeq(q, i - 7, i - 1)
        d == 7 * q[i] - SumSeq(w)
    IN i > 7 /\ d > 0 /\ 6 * d * d > 9 * 7 * VarTimesN2(w)

\* C22: on the twenty quantities of scenario E at least two sudden spikes are
\* reported (the days of 25 and of 30 units), and on every series the large isolated
\* days are reported as spikes
C22_SpikesReported ==
    Detected =>
        /\ IsScenarioE => Len(Report.sudden_spikes) >= 2
        /\ \A i \in DOMAIN FrameQuantities :
              AboveEarlierDays(FrameQuantities, i) => Len(Report.sudden_spikes) >= 1

\* scenario E is analysed and no spike is reported
C22_NoSpike ==
    /\ Detected
    /\ IsScenarioE
    /\ AboveEarlierDays(ScenarioE, 16)
    /\ Report.sudden_spikes = <<>>
    /\ Report.data_quality_issues = <<>>

\* no series makes the detector report a spike or a drop: a row is part of its own
\* window of at most seven rows, and no value is more than 6 / sqrt(7) sample
\* deviations from the mean of seven values it belongs to
C22_NeverFlags ==
    Detected => Report.sudden_spikes = <<>> /\ Report.sudden_drops = <<>>


(***************************************************************************)
(* The forecasters (models/forecasting_models.py) and the selection made   *)
(* from what they return.  The environment of a call says which libraries  *)
(* are installed and which of the library calls fail.                      *)
(***************************************************************************)
\* the outcome of a call: the value returned, or the exception that left the call
Returned(value) == [raised |-> FALSE, value |-> value, error |-> <<>>]
Raised(error) == [raised |-> TRUE, value |-> None, error |-> <<error>>]

\* ARIMAForecaster._fit_simple_arima: the body is a docstring, the call returns None
FitSimpleArima == None

\* ARIMAForecaster._fallback_forecast: the moving average of the last 7 days
FallbackForecast ==
    ForecastResult(<<20, 20>>, None, "Moving-Average-Fallback", "stable", FALSE, 300, 0, None)

\* ARIMAForecaster._fit_statsmodels_arima: auto_arima or ARIMA(1,1,1); any exception
\* inside is answered with _fit_simple_arima.  Without pmdarima, model.aic() in
\* _calculate_model_confidence raises and the confidence is the 0.5 of its handler
FitStatsmodelsArima(env) ==
    IF env.arima_fit_fails THEN FitSimpleArima
    ELSE ForecastResult(<<20, 40>>,
                        IF env.pmdarima_available THEN <<"arima-intervals">> ELSE None,
                        IF env.pmdarima_available THEN "ARIMA(2,1,1)" ELSE "ARIMA(1,1,1)",
                        "increasing", env.seasonality,
                        IF env.pmdarima_available THEN env.arima_confidence ELSE 500,
                        0, <<"order">>)

\* ARIMAForecaster.fit_and_forecast: the value it returns (it raises nothing for a
\* frame with the columns date and quantity)
ArimaFitAndForecast(env) ==
    IF env.prepare_fails THEN FallbackForecast
    ELSE IF env.statsmodels_available /\ env.ts_len >= 10 THEN FitStatsmodelsArima(env)
    ELSE FitSimpleArima

\* ProphetForecaster.fit_and_forecast (the class defined last): on ImportError and on
\* any other exception the result of a new ARIMAForecaster is renamed and returned;
\* renaming None raises AttributeError out of the handler
ProphetFitAndForecast(env) ==
    IF env.prophet_available /\ ~env.prophet_fit_fails
    THEN Returned(ForecastResult(<<60, 40>>, <<"intervals">>, "Prophet-Advanced",
                                 "decreasing", env.seasonality, env.prophet_confidence,
                                 0, <<"components">>))
    ELSE LET result == ArimaFitAndForecast(env)
         IN IF result = None
            THEN Raised("'NoneType' object has no attribute 'model_name'")
            ELSE Returned([result EXCEPT !.model_name = "ARIMA-Fallback"])

\* _select_best_forecast on what the forecasters returned: reading confidence_score
\* of None raises
SelectReturned(arima, prophet) ==
    IF arima = None \/ prophet = None
    THEN Raised("'NoneType' object has no attribute 'confidence_score'")
    ELSE Returned(SelectBestForecast(arima, prophet))

\* the environments of a call
ForecastEnvs ==
    [statsmodels_available : BOOLEAN, pmdarima_available : BOOLEAN,
     prophet_available : BOOLEAN, ts_len : {7, 15}, prepare_fails : BOOLEAN,
     arima_fit_fails : BOOLEAN, prophet_fit_fails : BOOLEAN, seasonality : BOOLEAN,
     arima_confidence : {500, 950}, prophet_confidence : {600, 800}]

InitForecasters ==
    /\ MonitorInit
    /\ ThreadsIdle
    /\ calls_left = 0
    /\ clears_left = 0
    /\ pattern = 0
    /\ RequestIdle
    /\ BatchIdle
    /\ fn_args \in ForecastEnvs
    /\ fn_result = <<>>
    /\ fn_log = <<>>

\* forecast_processor.py:45
FitArima ==
    /\ fn_log = <<>>
    /\ fn_log' = <<Returned(ArimaFitAndForecast(fn_args))>>
    /\ UNCHANGED <<mon_vars, since_clear, drv_vars, req_vars, bat_vars, fn_args, fn_result>>

\* forecast_processor.py:46
FitProphet ==
    /\ Len(fn_log) = 1
    /\ fn_log' = Append(fn_log, ProphetFitAndForecast(fn_args))
    /\ UNCHANGED <<mon_vars, since_clear, drv_vars, req_vars, bat_vars, fn_args, fn_result>>

\* forecast_processor.py:49, reached when neither call raised
SelectFitted ==
    /\ Len(fn_log) = 2
    /\ ~fn_log[2].raised
    /\ fn_result = <<>>
    /\ fn_result' = <<SelectReturned(fn_log[1].value, fn_log[2].value)>>
    /\ UNCHANGED <<mon_vars, since_clear, drv_vars, req_vars, bat_vars, fn_args, fn_log>>

NextForecasters == FitArima \/ FitProphet \/ SelectFitted

SpecForecasters == InitForecasters /\ [][NextForecasters]_vars

\* the model fitting of the ARIMA forecaster failed inside the call
ArimaFailed ==
    \/ fn_args.prepare_fails
    \/ ~(fn_args.statsmodels_available /\ fn_args.ts_len >= 10)
    \/ fn_args.arima_fit_fails

\* the model fitting of the Prophet forecaster failed inside the call
ProphetFailed == ~fn_args.prophet_available \/ fn_args.prophet_fit_fails

FallbackNames == {"Moving-Average-Fallback", "ARIMA-Fallback", "ARIMA-Simple"}

\* a well-formed result of a failed fitting: confidence 0 and a fallback name
MarksFailure(outcome) ==
    /\ ~outcome.raised
    /\ outcome.value # None
    /\ outcome.value.confidence_score = 0
    /\ outcome.value.model_name \in FallbackNames

\* C23: neither forecaster raises to its caller; a forecaster whose fitting failed
\* returns a result with confidence 0 and a fallback name; and the selection then
\* returns the other candidate as it is
C23_FailureMarked ==
    /\ Len(fn_log) >= 1 =>
          /\ ~fn_log[1].raised
          /\ ArimaFailed => MarksFailure(fn_log[1])
    /\ Len(fn_log) >= 2 =>
          /\ ~fn_log[2].raised
          /\ ProphetFailed => MarksFailure(fn_log[2])
    /\ fn_result # <<>> =>
          /\ ~fn_result[1].raised
          /\ (ArimaFailed /\ ~ProphetFailed) => fn_result[1].value = fn_log[2].value
          /\ (ProphetFailed /\ ~ArimaFailed) => fn_result[1].value = fn_log[1].value

\* Prophet is not installed and the frame has duplicate dates: the Prophet forecaster
\* returns the moving average under the name ARIMA-Fallback with confidence 0.3, and
\* the selection averages it with the ARIMA forecaster's own fallback
C23_FallbackConfident ==
    /\ fn_result # <<>>
    /\ ProphetFailed
    /\ ~fn_log[2].raised
    /\ fn_log[2].value.model_name = "ARIMA-Fallback"
    /\ fn_log[2].value.confidence_score = 300
    /\ ~fn_result[1].raised
    /\ fn_result[1].value.model_name = "Ensemble-ARIMA-Prophet"

\* the ARIMA fitting fails and Prophet is not installed: the Prophet forecaster raises
C23_ProphetRaises ==
    /\ Len(fn_log) = 2
    /\ fn_log[1].value = None
    /\ fn_log[2].raised


(***************************************************************************)
(* PerformanceMonitor: record, clear, summary, comparison and export       *)
(* called one after the other by one thread                                *)
(***************************************************************************)
\* calls made in a run
MaxOps == 4

\* metrics a caller may record: those above and a second successful ARIMA-Simple run
OpsMetrics ==
    MonMetricsSet
    \cup {Metrics(3, "SKU-3", "u2", "ARIMA-Simple", 7000, 20, 7, 900, 600, TRUE, None)}

\* cutoff_time = datetime.now() - timedelta(hours=hours): a window holding the records
\* stamped 2 and 3, and a window that starts after every record
OpsCutoffs == {2, 4}

\* the call the thread made last and what it returned
OpsCalled(call, ret) ==
    /\ calls_left > 0
    /\ calls_left' = calls_left - 1
    /\ tcall' = [tcall EXCEPT ![1] = call]
    /\ tret' = [tret EXCEPT ![1] = ret]
    /\ UNCHANGED <<tpc, pattern, app_vars>>

OpsRecord ==
    \E m \in OpsMetrics :
        /\ MonitorRecord(m)
        /\ OpsCalled([op |-> "record", metrics |-> m], None)
        /\ UNCHANGED clears_left

OpsClear ==
    /\ clears_left > 0
    /\ clears_left' = clears_left - 1
    /\ MonitorClear
    /\ OpsCalled([op |-> "clear"], None)

OpsSummary ==
    \E c \in OpsCutoffs :
        /\ OpsCalled([op |-> "summary", cutoff_time |-> c],
                     GetPerformanceSummary(metrics_history, c))
        /\ UNCHANGED <<mon_vars, since_clear, clears_left>>

OpsComparison ==
    /\ OpsCalled([op |-> "comparison"], GetModelPerformanceComparison(model_performance))
    /\ UNCHANGED <<mon_vars, since_clear, clears_left>>

OpsExport ==
    \E f \in {"json", "csv"} :
        /\ OpsCalled([op |-> "export", format |-> f], ExportMetrics(metrics_history, f))
        /\ UNCHANGED <<mon_vars, since_clear, clears_left>>

InitOps ==
    /\ MonitorInit
    /\ ThreadsIdle
    /\ calls_left = MaxOps
    /\ clears_left = MaxClears
    /\ pattern = 0
    /\ RequestIdle
    /\ BatchIdle
    /\ FnIdle

NextOps == OpsRecord \/ OpsClear \/ OpsSummary \/ OpsComparison \/ OpsExport

SpecOps == InitOps /\ [][NextOps]_vars

\* the last call and its result
LastOp == tcall[1].op
LastRet == tret[1]

\* the records made since the last clear under model name k, and the successful ones
RunsOf(k) == LET Under(m) == m.model_used = k IN SelectSeq(since_clear, Under)
SuccessfulRunsOf(k) == SelectSeq(RunsOf(k), IsSuccess)

\* the sum of field f over the records in s
RECURSIVE SumField(_, _)
SumField(s, f) == IF s = <<>> THEN 0 ELSE Head(s)[f] + SumField(Tail(s), f)

AllModelNames == {m.model_used : m \in OpsMetrics}

\* C24: the comparison has an entry for a model name exactly when a successful run was
\* recorded under it since the last clear; successful_runs <= total_runs, success_rate
\* is successful_runs / total_runs, the averages are over the successful runs only,
\* and both standard deviations are 0 with fewer than two successful runs
C24_Comparison ==
    LastOp = "comparison" =>
        /\ DOMAIN LastRet = {k \in AllModelNames : SuccessfulRunsOf(k) # <<>>}
        /\ \A k \in DOMAIN LastRet :
              LET e == LastRet[k]
                  ok == SuccessfulRunsOf(k)
              IN /\ e.total_runs = Len(RunsOf(k))
                 /\ e.successful_runs = Len(ok)
                 /\ e.successful_runs <= e.total_runs
                 /\ e.success_rate = <<e.successful_runs, e.total_runs>>
                 /\ e.avg_confidence = <<SumField(ok, "confidence_score"), Len(ok)>>
                 /\ e.avg_quality = <<SumField(ok, "data_quality_score"), Len(ok)>>
                 /\ e.avg_processing_time_ms = <<SumField(ok, "processing_time_ms"), Len(ok)>>
                 /\ Len(ok) < 2 => e.confidence_std = 0 /\ e.quality_std = 0

\* ARIMA-Simple has two successful runs of different confidence and a failed one: the
\* comparison lists it with 2 of 3 runs successful, the average of the two and a
\* non-zero deviation
C24_Witness ==
    /\ LastOp = "comparison"
    /\ DOMAIN LastRet = {"ARIMA-Simple"}
    /\ LastRet["ARIMA-Simple"].total_runs = 3
    /\ LastRet["ARIMA-Simple"].successful_runs = 2
    /\ LastRet["ARIMA-Simple"].avg_confidence = <<1400, 2>>
    /\ LastRet["ARIMA-Simple"].confidence_std > 0


\* the records of the rolling history stamped at or after the cutoff of the last call
InWindowRecords ==
    LET In(m) == m.timestamp >= tcall[1].cutoff_time IN SelectSeq(metrics_history, In)

\* the sum of the counts of the tally d
RECURSIVE TallySum(_, _)
TallySum(d, S) ==
    IF S = {} THEN 0
    ELSE LET k == CHOOSE x \in S : TRUE IN d[k] + TallySum(d, S \ {k})

\* C25: for a non-empty window, total_requests = successful_requests + failed_requests
\* counts exactly the history records stamped inside the window, success_rate is
\* successful_requests / total_requests, the per-model usage counts sum to
\* successful_requests, and the failure-message tally sums to failed_requests; for an
\* empty window no statistics are reported
C25_Summary ==
    LastOp = "summary" =>
        IF InWindowRecords = <<>>
        THEN DOMAIN LastRet = {"message"}
        ELSE /\ LastRet.total_requests = Len(InWindowRecords)
             /\ LastRet.total_requests = LastRet.successful_requests + LastRet.failed_requests
             /\ LastRet.successful_requests = Len(SelectSeq(InWindowRecords, IsSuccess))
             /\ LastRet.success_rate = <<LastRet.successful_requests, LastRet.total_requests>>
             /\ TallySum(LastRet.model_usage, DOMAIN LastRet.model_usage)
                    = LastRet.successful_requests
             /\ TallySum(LastRet.recent_errors, DOMAIN LastRet.recent_errors)
                    = LastRet.failed_requests

\* the summary of a window holding a failed request recorded without a message: one
\* failed request, and nothing in the tally of failure messages
C25_UntalliedFailure ==
    /\ LastOp = "summary"
    /\ InWindowRecords # <<>>
    /\ LastRet.failed_requests = 1
    /\ LastRet.recent_errors = EmptyDict
    /\ error_counts = [k \in {<<"unknown_error">>} |-> 1]


\* the per-model lists, error tally and processing-time window a newly constructed
\* monitor holds after the records in s
RECURSIVE FreshPerf(_)
FreshPerf(s) ==
    IF s = <<>> THEN EmptyDict
    ELSE PerfAppend(FreshPerf(SubSeq(s, 1, Len(s) - 1)), s[Len(s)])

RECURSIVE FreshErrors(_)
FreshErrors(s) ==
    IF s = <<>> THEN EmptyDict
    ELSE ErrorCount(FreshErrors(SubSeq(s, 1, Len(s) - 1)), s[Len(s)])

Cleared == clears_left < MaxClears

\* C26: right after a clear the rolling history, the per-model lists, the error counts
\* and the processing-time window are empty, and until the next record the summary
\* reports no metrics, the comparison no models and the export an empty list; the
\* records made after a clear are stored as in a newly constructed monitor of the
\* same capacity
C26_Clear ==
    Cleared =>
        /\ since_clear = <<>> =>
              /\ metrics_history = <<>>
              /\ model_performance = EmptyDict
              /\ error_counts = EmptyDict
              /\ processing_times = <<>>
              /\ LastOp = "summary" => DOMAIN LastRet = {"message"}
              /\ LastOp = "comparison" => LastRet = EmptyDict
              /\ (LastOp = "export" /\ tcall[1].format = "json") =>
                     ~LastRet.raised /\ LastRet.data = <<>>
        /\ metrics_history = LastN(since_clear, MaxHistorySize)
        /\ model_performance = FreshPerf(since_clear)
        /\ error_counts = FreshErrors(since_clear)
        /\ processing_times =
               LastN([i \in DOMAIN since_clear |-> since_clear[i].processing_time_ms],
                     ProcessingTimesMaxLen)

\* two calls, a clear, and then a comparison that finds no model
C26_Witness ==
    /\ Cleared
    /\ since_clear = <<>>
    /\ calls_left = MaxOps - 4
    /\ LastOp = "comparison"
    /\ LastRet = EmptyDict

\* after a clear, a record has been made again and is all the monitor holds
C26_RecordedAgain ==
    /\ Cleared
    /\ Len(since_clear) = 1
    /\ calls_left = MaxOps - 4
    /\ Len(metrics_history) = 1


-----------------------------------------------------------------------------
(* PerformanceMonitor: the reading operations under concurrency *)

\* thread t takes the step that runs the body of its reading call
Reads(t, op) == tpc[t] = op /\ tpc'[t] = "unlock"

\* C27: export returns every record of the rolling history, in history order, and
\* like summary and comparison leaves the state of the monitor as it was; an export
\* that fails (unsupported format) raises to the caller with its message, changes
\* nothing either, and the mutex is released when the call is left, raised or not
C27_ReadOnly ==
    [][\A t \in Threads :
          /\ (Reads(t, "export") \/ Reads(t, "summary") \/ Reads(t, "comparison")) =>
                /\ lock = t
                /\ UNCHANGED <<metrics_history, model_performance, error_counts,
                               processing_times, lock>>
          /\ (Reads(t, "export") /\ tcall[t].format = "json") =>
                /\ ~tret'[t].raised
                /\ tret'[t].data = metrics_history
                /\ tret'[t].data = LastN(since_clear, MaxHistorySize)
          /\ (Reads(t, "export") /\ tcall[t].format # "json") =>
                /\ tret'[t].raised
                /\ tret'[t].data = <<"Unsupported export format: ", tcall[t].format>>
          /\ (tpc[t] = "unlock" /\ tpc'[t] = "idle") => lock = t /\ lock' = 0
      ]_vars

\* a thread has exported a full history of two different records
C27_Witness ==
    \E t \in Threads :
        /\ tpc[t] = "unlock"
        /\ tcall[t].op = "export"
        /\ ~tret[t].raised
        /\ Len(tret[t].data) = MaxHistorySize
        /\ tret[t].data[1] # tret[t].data[Len(tret[t].data)]

\* an export has raised and been left, and another thread now holds the mutex
C27_RaisedAndReleased ==
    \E t, u \in Threads :
        /\ tpc[t] = "idle"
        /\ tcall[t].op = "export"
        /\ tret[t] # None
        /\ tret[t].raised
        /\ lock = u
        /\ u # t


-----------------------------------------------------------------------------
(* The processing time a request records *)

\* C28: the processing time stored in the metrics record of a request is the time
\* elapsed from the acquisition of its timer to the moment the record is made, so a
\* request that took t > 0 ms is recorded with t, never with 0
C28_ProcessingTime ==
    \A i \in DOMAIN since_clear :
        since_clear[i].processing_time_ms = (since_clear[i].timestamp - timer.start_time) * 1000

\* a second has passed between the acquisition of the timer and the record, and the
\* record carries a processing time of 0
C28_RecordedZero ==
    /\ Finished
    /\ since_clear # <<>>
    /\ since_clear[1].timestamp > timer.start_time
    /\ timer.end_time > timer.start_time
    /\ since_clear[1].processing_time_ms = 0
    /\ processing_times[1] = 0

\* every record of every request carries a processing time of 0
C28_AlwaysZero ==
    \A i \in DOMAIN since_clear : since_clear[i].processing_time_ms = 0


-----------------------------------------------------------------------------
(* The per-model statistics and the rolling history *)

\* C29: the per-model lists hold every record made since the last clear, and for each
\* model name the comparison lists, its total_runs is the number of records made
\* under that name since the last clear, whether or not the rolling history still
\* holds them
C29_PerModelNeverEvicted ==
    /\ \A k \in AllModelNames : Len(ListAt(model_performance, k)) = Len(RunsOf(k))
    /\ DOMAIN model_performance = {k \in AllModelNames : RunsOf(k) # <<>>}
    /\ LastOp = "comparison" =>
          \A k \in DOMAIN LastRet : LastRet[k].total_runs = Len(RunsOf(k))

\* more records than the history holds were made under one model name: the history
\* has evicted, the comparison still counts them all
C29_Witness ==
    /\ LastOp = "comparison"
    /\ Len(metrics_history) = MaxHistorySize
    /\ \E k \in DOMAIN LastRet : LastRet[k].total_runs > MaxHistorySize


-----------------------------------------------------------------------------
(* PerformanceMonitor: every call completes *)

\* a thread that can take a step takes one: a running thread is not suspended for
\* ever, and a thread waiting for a lock that stays free acquires it
ThreadStep(t) ==
    \/ Acquire(t)
    \/ RecHist(t)
    \/ RecPerf(t)
    \/ RecTimes(t)
    \/ RecErr(t)
    \/ SummaryBody(t)
    \/ ComparisonBody(t)
    \/ ExportBody(t)
    \/ ClearBody(t)
    \/ Release(t)

SpecMonFair == SpecMon /\ \A t \in Threads : WF_vars(ThreadStep(t))

\* a thread inside a call
InCall(t) == tpc[t] # "idle"

\* the mutex is held by a thread inside the body of its call, or by nobody
HeldByRunning ==
    \/ lock = 0 /\ \A t \in Threads : tpc[t] \in {"idle", "lock"}
    \/ /\ lock \in Threads
       /\ tpc[lock] \in RecordBody \cup ReaderBody \cup {"unlock"}
       /\ \A t \in Threads \ {lock} : tpc[t] \in {"idle", "lock"}

\* C30: no thread waits for the mutex while holding it, the mutex is held only by a
\* thread that is inside the body of its call and is released when the call is left,
\* raised or not, and under fair scheduling every call that is made completes
C30_DeadlockFree ==
    /\ [](HeldByRunning /\ \A t \in Threads : tpc[t] = "lock" => lock # t)
    /\ \A t \in Threads : InCall(t) ~> ~InCall(t)

\* a thread waits for the mutex while another thread, inside an export that raises,
\* holds it
C30_Witness ==
    \E t, u \in Threads :
        /\ tpc[t] = "lock"
        /\ lock = u
        /\ tpc[u] = "unlock"
        /\ tcall[u].op = "export"
        /\ tret[u].raised

====
